---- MODULE Spec2Model ----
(***************************************************************************)
(* Model of the supervisor's web dashboard                                  *)
(* (src/controllers/supervisor/web_dashboard.py): the shared state store,   *)
(* the command flags, the per-connection dispatcher and WebSocket session   *)
(* loop, the broadcaster thread and the external control loop's calls.      *)
(*                                                                          *)
(* Every `with lock:` block of the source is one atomic step.  Socket I/O   *)
(* and the code between two critical sections are separate steps, so that   *)
(* the threads interleave exactly where the source lets them.               *)
(***************************************************************************)
EXTENDS Integers, Sequences, FiniteSets, TLC

(***************************************************************************)
(* Bounds of the model.                                                     *)
(***************************************************************************)
\* the connections the server accepts in one behaviour
Conns == {1, 2}
\* setter calls of the external loop in one behaviour
MaxSets == 1
\* text frames carrying a command, over all sessions, in one behaviour
MaxCmds == 2
\* the commands remembered per flag between two consume calls, and the
\* snapshots held
MaxCount == 2
\* calls of the setters that are modelled statement by statement
MaxCalls == 2
\* the cells of the cleaning grid
GridCells == 2
\* the simulation steps one behaviour of the control loop is followed for
MaxNow == 9
\* run_time_limit, in simulation steps
RunLimit == 4
\* the simulation steps between two dashboard updates (1.0 s)
UpdatePeriod == 2
\* the battery drained in one simulation step (battery_drain_rate * dt)
BatteryDrain == 50
\* the stream positions where the transport may split a frame, and the most
\* splits of one frame
CutRange == 16
MaxCuts == 2

(***************************************************************************)
(* Optional values: Python's None is <<>>, a value v is <<v>>.              *)
(***************************************************************************)
None == <<>>
Some(v) == <<v>>
IsNone(o) == o = <<>>
Val(o) == o[1]

Max(a, b) == IF a >= b THEN a ELSE b
Min(a, b) == IF a <= b THEN a ELSE b

(***************************************************************************)
(* _SharedState.__init__: the fields of the store and their defaults.       *)
(* Floats are modelled by integers (every value used is a whole number).    *)
(***************************************************************************)
SharedStateInit ==
    [ team_name            |-> "",
      points               |-> 0,
      percent              |-> 0,
      last_upload_filename |-> None,
      new_code_available   |-> FALSE,
      run_requested        |-> FALSE,
      relocate_requested   |-> FALSE,
      remaining_seconds    |-> 0,
      game_over            |-> FALSE,
      room_pcts            |-> <<>>,
      current_room         |-> -1,
      score_log            |-> <<>>,
      battery              |-> None,
      end_requested        |-> FALSE,
      subleague            |-> "" ]

\* the four command flags, by the name of their field
FlagNames == {"new_code_available", "run_requested", "relocate_requested", "end_requested"}

\* str.strip() on the strings the model uses
Strip(s) ==
    CASE s = " Team A " -> "Team A"
      [] s = " U19 "    -> "U19"
      [] s = "  "       -> ""
      [] OTHER          -> s

\* (x or "") for an optional string
OrEmpty(o) == IF IsNone(o) THEN "" ELSE Val(o)

\* set_subleague
set_subleague(S, subleague) ==
    [S EXCEPT !.subleague = Strip(OrEmpty(subleague))]

\* update_score: score_log None becomes the empty list
update_score(S, points, percent, remaining_seconds, game_over, score_log) ==
    [S EXCEPT !.points = points,
              !.percent = percent,
              !.remaining_seconds = Max(0, remaining_seconds),
              !.game_over = game_over,
              !.score_log = IF IsNone(score_log) THEN <<>> ELSE Val(score_log)]

\* set_team_name
set_team_name(S, name) ==
    [S EXCEPT !.team_name = Strip(OrEmpty(name))]

\* set_battery
set_battery(S, battery) ==
    [S EXCEPT !.battery = battery]

\* set_room_stats: an empty or None dict becomes {}, current_room None becomes -1
set_room_stats(S, room_pcts, current_room) ==
    [S EXCEPT !.room_pcts = IF IsNone(room_pcts) THEN <<>> ELSE Val(room_pcts),
              !.current_room = IF IsNone(current_room) THEN -1 ELSE Val(current_room)]

\* a faulty variant: hasCode is the new-code flag
get_state_snapshot_has_code_is_flag(S) ==
    [ teamName           |-> S.team_name,
      points             |-> S.points,
      percent            |-> S.percent,
      lastUploadFilename |-> S.last_upload_filename,
      hasCode            |-> S.new_code_available,
      remainingSeconds   |-> S.remaining_seconds,
      gameOver           |-> S.game_over,
      roomPcts           |-> S.room_pcts,
      currentRoom        |-> S.current_room,
      scoreLog           |-> S.score_log,
      battery            |-> S.battery,
      subleague          |-> S.subleague ]

\* get_state_snapshot: the dict, by JSON key
get_state_snapshot(S) ==
    [ teamName           |-> S.team_name,
      points             |-> S.points,
      percent            |-> S.percent,
      lastUploadFilename |-> S.last_upload_filename,
      hasCode            |-> ~IsNone(S.last_upload_filename),
      remainingSeconds   |-> S.remaining_seconds,
      gameOver           |-> S.game_over,
      roomPcts           |-> S.room_pcts,
      currentRoom        |-> S.current_room,
      scoreLog           |-> S.score_log,
      battery            |-> S.battery,
      subleague          |-> S.subleague ]

\* the read-then-clear of the four consume_* functions
ConsumeFlagNoClear(S, f) == [ret |-> S[f], state |-> S]
\* a faulty variant: one consume clears every flag
ConsumeFlagClearsAll(S, f) ==
    [ret |-> S[f], state |-> [k \in DOMAIN S |-> IF k \in FlagNames THEN FALSE ELSE S[k]]]
ConsumeFlag(S, f) == [ret |-> S[f], state |-> [S EXCEPT ![f] = FALSE]]

consume_new_code_flag(S)    == ConsumeFlag(S, "new_code_available")
consume_run_request(S)      == ConsumeFlag(S, "run_requested")
consume_end_request(S)      == ConsumeFlag(S, "end_requested")
consume_relocate_request_clear_first(S) ==
    [ret |-> FALSE, state |-> [S EXCEPT !.relocate_requested = FALSE]]
consume_relocate_request(S) == ConsumeFlag(S, "relocate_requested")

\* the consume function of a flag
Consume(S, f) ==
    CASE f = "new_code_available" -> consume_new_code_flag(S)
      [] f = "run_requested"      -> consume_run_request(S)
      [] f = "end_requested"      -> consume_end_request(S)
      [] f = "relocate_requested" -> consume_relocate_request(S)

(***************************************************************************)
(* json.dumps of a snapshot: a sequence of <<key, value>> pairs.            *)
(* json.dumps(payload) keeps the dict's insertion order,                    *)
(* json.dumps(payload, sort_keys=True) orders the keys of the snapshot and  *)
(* of the roomPcts dict inside it.  A scoreLog entry is a record, which has *)
(* no order of keys.                                                        *)
(***************************************************************************)
JsonDumps(p) ==
    << <<"teamName", p.teamName>>, <<"points", p.points>>, <<"percent", p.percent>>,
       <<"lastUploadFilename", p.lastUploadFilename>>, <<"hasCode", p.hasCode>>,
       <<"remainingSeconds", p.remainingSeconds>>, <<"gameOver", p.gameOver>>,
       <<"roomPcts", p.roomPcts>>, <<"currentRoom", p.currentRoom>>,
       <<"scoreLog", p.scoreLog>>, <<"battery", p.battery>>,
       <<"subleague", p.subleague>> >>

\* the items of a dict in the order of their keys (the room numbers), as
\* sort_keys=True writes a dict at any depth
RECURSIVE SortedItems(_)
SortedItems(items) ==
    IF Len(items) <= 1 THEN items
    ELSE LET lo == CHOOSE i \in 1..Len(items) :
                       \A j \in 1..Len(items) : items[i][1] <= items[j][1]
             rest == [j \in 1..(Len(items) - 1) |->
                         IF j < lo THEN items[j] ELSE items[j + 1]]
         IN  <<items[lo]>> \o SortedItems(rest)

JsonDumpsSorted(p) ==
    << <<"battery", p.battery>>, <<"currentRoom", p.currentRoom>>,
       <<"gameOver", p.gameOver>>, <<"hasCode", p.hasCode>>,
       <<"lastUploadFilename", p.lastUploadFilename>>, <<"percent", p.percent>>,
       <<"points", p.points>>, <<"remainingSeconds", p.remainingSeconds>>,
       <<"roomPcts", SortedItems(p.roomPcts)>>, <<"scoreLog", p.scoreLog>>,
       <<"subleague", p.subleague>>, <<"teamName", p.teamName>> >>

\* the value of a key in a serialized snapshot (what the client reads)
JsonGet(msg, key) == (CHOOSE i \in 1..Len(msg) : msg[i][1] = key) \* index
JsonField(msg, key) == msg[JsonGet(msg, key)][2]

(***************************************************************************)
(* Inbound text frames.  A payload is invalid UTF-8, invalid JSON, or a     *)
(* JSON value; a JSON value is an object with the three keys the handler    *)
(* reads, or something else.  A key that is absent is [t |-> "absent"].     *)
(***************************************************************************)
JAbsent == [t |-> "absent"]
JNull   == [t |-> "null"]
\* the number n (a non-negative integer), the number 5, the number 0
JNum(n) == [t |-> "number", n |-> n]
JNumber == JNum(5)
JZero   == JNum(0)
\* the empty array
JArray  == [t |-> "array"]
JStr(s) == [t |-> "str", s |-> s]

\* a base64 text: `data` alphabet characters, then `pad` '=' characters, with
\* `junk` other ASCII characters among them; ascii = FALSE: a non-ASCII character
B64(data, pad, junk, ascii) == [data |-> data, pad |-> pad, junk |-> junk, ascii |-> ascii]
B64Len(b) == b.data + b.pad + b.junk + (IF b.ascii THEN 0 ELSE 1)
\* the bytes of the text in UTF-8: the character that is not ASCII takes two
B64Bytes(b) == B64Len(b) + (IF b.ascii THEN 0 ELSE 1)

\* a file name is the sequence of its '/'-separated components
CompLen(s) ==
    CASE s = "robot.py" -> 8
      [] s = "a.py"     -> 4
      [] s = "dir"      -> 3
      [] OTHER          -> 0
RECURSIVE PathLen(_)
PathLen(path) ==
    IF Len(path) = 0 THEN 0
    ELSE CompLen(path[1]) + (IF Len(path) > 1 THEN 1 + PathLen(Tail(path)) ELSE 0)

JObject(action, content, filename) ==
    [t |-> "object", action |-> action, content |-> content, filename |-> filename]

BadUtf8   == [k |-> "badutf8"]
BadJson   == [k |-> "badjson"]
Json(v)   == [k |-> "json", v |-> v]

\* Python truthiness of a JSON value read with msg.get
Truthy(v) ==
    CASE v.t = "absent" -> FALSE
      [] v.t = "null"   -> FALSE
      [] v.t = "number" -> v.n # 0
      [] v.t = "array"  -> FALSE
      [] v.t = "str"    -> v.s # ""
      [] v.t = "path"   -> v.p # <<"">>
      [] v.t = "b64"    -> B64Len(v.b) > 0
      [] v.t = "object" -> \E k \in {"action", "content", "filename"} : v[k].t # "absent"

IsStr(v) == v.t \in {"str", "path", "b64"}

\* base64.b64decode(content_b64) without validate: the characters outside the
\* alphabet are discarded; the result is the number of decoded bytes, or None
\* when it raises (binascii.Error, ValueError)
b64decode(b) ==
    IF ~b.ascii THEN None
    ELSE CASE b.data % 4 = 0 -> Some(3 * (b.data \div 4))
           [] b.data % 4 = 1 -> None
           [] b.data % 4 = 2 -> IF b.pad >= 2 THEN Some(3 * (b.data \div 4) + 1) ELSE None
           [] b.data % 4 = 3 -> IF b.pad >= 1 THEN Some(3 * (b.data \div 4) + 2) ELSE None

\* os.path.basename of a path
basename(path) == path[Len(path)]

\* the size limit of _apply_upload
UploadLimit == 2 * 1024 * 1024

(***************************************************************************)
(* _apply_upload(content_b64, filename) on store S with the file system in  *)
(* condition fs: "ok"; "mkdir_fails" (robot_dir.mkdir raises);              *)
(* "open_fails" (open raises, the file is as it was); "file_limit" (the     *)
(* file cannot take more than fs.room bytes: a write of more raises after   *)
(* room bytes were put in the file).  The file is its size in bytes, None   *)
(* when there is none.  The result names how the call ends: "none"          *)
(* (returns None), "saved" (returns the name), "oserror" (robot_dir.mkdir   *)
(* raises), "typeerror" (os.path.basename of a file name that is no string, *)
(* after the file was written).                                             *)
(***************************************************************************)
FsOk == [k |-> "ok", room |-> 0]
FsMkdirFails == [k |-> "mkdir_fails", room |-> 0]
FsOpenFails == [k |-> "open_fails", room |-> 0]
FsLimit(room) == [k |-> "file_limit", room |-> room]

\* lines 259-261: mkdir, then open(path, "wb"), which creates the file or
\* empties it
upload_open(file, fs) ==
    IF fs.k = "mkdir_fails" THEN [end |-> "oserror", file |-> file]
    ELSE IF fs.k = "open_fails" THEN [end |-> "none", file |-> file]
    ELSE [end |-> "open", file |-> Some(0)]

\* lines 262-263: the n bytes are written from the start of the open file,
\* whatever it holds by now, and the file is closed
upload_write(file, n, fs) ==
    IF fs.k = "file_limit" /\ n > fs.room
    THEN [end |-> "none", file |-> Some(Max(Val(file), fs.room))]
    ELSE [end |-> "written", file |-> Some(Max(Val(file), n))]

\* line 266: the name to save, None when os.path.basename raises TypeError;
\* a text that is no path has no '/' and is its own basename
saved_name(filename) ==
    IF ~Truthy(filename) THEN Some("robot.py")
    ELSE CASE filename.t = "path" -> Some(basename(filename.p))
           [] filename.t = "str"  -> Some(filename.s)
           [] filename.t = "b64"  -> Some(filename.b)
           [] OTHER               -> None

\* lines 267-269: the store's fields
upload_commit(S, name) ==
    [S EXCEPT !.last_upload_filename = name, !.new_code_available = TRUE]

apply_upload(S, file, content, filename, fs) ==
    LET bytes == b64decode(content.b)
        same == [end |-> "none", state |-> S, file |-> file, saved |-> None]
    IN  IF IsNone(bytes) THEN same
        ELSE IF Val(bytes) > UploadLimit THEN same
        ELSE LET o == upload_open(file, fs) IN
             IF o.end # "open" THEN [same EXCEPT !.end = o.end]
             ELSE LET w == upload_write(o.file, Val(bytes), fs) IN
                  IF w.end # "written" THEN [same EXCEPT !.file = w.file]
                  ELSE LET name == saved_name(filename) IN
                       IF IsNone(name)
                       THEN [same EXCEPT !.end = "typeerror", !.file = w.file]
                       ELSE [end |-> "saved", state |-> upload_commit(S, name),
                             file |-> w.file, saved |-> name]

(***************************************************************************)
(* Frames as the client sends them: opcode, payload, and the payload        *)
(* length the header declares.  TextLen is the length in bytes of the JSON  *)
(* text in UTF-8 (compact separators, characters unescaped, as a browser's  *)
(* JSON.stringify writes it).                                               *)
(***************************************************************************)
\* the characters of the strings the frames carry
StrLen(s) ==
    CASE s = "run"      -> 3
      [] s = "end"      -> 3
      [] s = "relocate" -> 8
      [] s = "upload"   -> 6
      [] s = "dance"    -> 5
      [] OTHER          -> 0

\* the decimal digits of a non-negative integer
RECURSIVE NumLen(_)
NumLen(n) == IF n < 10 THEN 1 ELSE 1 + NumLen(n \div 10)

\* the text of a JSON value that is no object
ValueLen(v) ==
    CASE v.t = "absent" -> 0
      [] v.t = "null"   -> 4
      [] v.t = "number" -> NumLen(v.n)
      [] v.t = "array"  -> 2
      [] v.t = "str"    -> 2 + StrLen(v.s)
      [] v.t = "path"   -> 2 + PathLen(v.p)
      [] v.t = "b64"    -> 2 + B64Bytes(v.b)

\* the text of an object: braces, `"key":value` for each key that is there,
\* commas in between
ObjectLen(v) ==
    LET keys == {k \in {"action", "content", "filename"} : v[k].t # "absent"}
        KeyLen(k) == CASE k = "action" -> 9 [] k = "content" -> 10 [] k = "filename" -> 11
        F(k) == IF k \in keys THEN KeyLen(k) + ValueLen(v[k]) ELSE 0
    IN  2 + F("action") + F("content") + F("filename")
          + (IF keys = {} THEN 0 ELSE Cardinality(keys) - 1)

TextLen(body) ==
    CASE body.k = "raw"     -> body.n
      [] body.k = "badutf8" -> 4
      [] body.k = "badjson" -> 7
      [] body.k = "json"    ->
            IF body.v.t = "object" THEN ObjectLen(body.v) ELSE ValueLen(body.v)

Frame(opcode, body) == [opcode |-> opcode, body |-> body, len |-> TextLen(body)]
Raw(n) == [k |-> "raw", n |-> n]

\* the frames of a command and of an upload
JPath(p) == [t |-> "path", p |-> p]
Cmd(action) == Frame(1, Json(JObject(JStr(action), JAbsent, JAbsent)))
Upload(b, name) == Frame(1, Json(JObject(JStr("upload"), [t |-> "b64", b |-> b], name)))

\* the limit of _ws_recv_frame on the declared payload length
FrameLimit == 1024 * 1024

\* a faulty variant: a frame of exactly the limit is refused
ws_recv_frame_refuses_limit(sockOpen, peerUp, frame) ==
    IF ~sockOpen \/ ~peerUp THEN None
    ELSE IF frame.len >= FrameLimit THEN None
    ELSE Some([opcode |-> frame.opcode, payload |-> frame.body])

\* _ws_recv_frame on a socket with a complete frame to read: None when the
\* socket is closed or at end of stream or the declared length is over the limit
ws_recv_frame(sockOpen, peerUp, frame) ==
    IF ~sockOpen \/ ~peerUp THEN None
    ELSE IF frame.len > FrameLimit THEN None
    ELSE Some([opcode |-> frame.opcode, payload |-> frame.body])

(***************************************************************************)
(* The bytes of a frame.  A stream is the header bytes it holds, as numbers  *)
(* (the whole header, or its first bytes when the stream ends inside the     *)
(* header), followed by `body` payload bytes; a payload read from it is the  *)
(* run of n bytes that starts `off` bytes into the body (masked: XORed with  *)
(* the mask).                                                                *)
(***************************************************************************)
\* struct.pack(">H", v) and struct.pack(">Q", v), for v < 2^24
Pack16(v) == <<v \div 256, v % 256>>
Pack64(v) == <<0, 0, 0, 0, 0, v \div 65536, (v \div 256) % 256, v % 256>>

\* struct.unpack(">H", b) and struct.unpack(">Q", b); a 64-bit value of 2^24
\* or more is given as 2^24 (it is only compared with the frame limit)
Unpack16(b) == b[1] * 256 + b[2]
Unpack64(b) ==
    IF \E i \in 1..5 : b[i] # 0 THEN 16777216
    ELSE b[6] * 65536 + b[7] * 256 + b[8]

\* a faulty variant: lengths up to 126 in the one-byte form
ws_send_text_one_byte_126(n) ==
    [head |-> IF n <= 126 THEN <<129, n>>
              ELSE IF n < 65536 THEN <<129, 126>> \o Pack16(n)
              ELSE <<129, 127>> \o Pack64(n),
     body |-> n]

\* _ws_send_text on a payload of n bytes: what sendall is given
ws_send_text(n) ==
    [head |-> IF n < 126 THEN <<129, n>>
              ELSE IF n < 65536 THEN <<129, 126>> \o Pack16(n)
              ELSE <<129, 127>> \o Pack64(n),
     body |-> n]

\* _ws_recv_frame on a stream that ends after these bytes: None when the
\* stream ends inside the header (recv returns fewer bytes than the two of
\* the header, than the extended length or than the mask key), over the
\* limit, and when the stream ends inside the payload
ws_recv_bytes(stream) ==
    LET h == stream.head
    IN  IF Len(h) < 2 THEN None
        ELSE
        LET opcode == h[1] % 16
            masked == h[2] >= 128
            len7 == h[2] % 128
            ext == IF len7 = 126 THEN 2 ELSE IF len7 = 127 THEN 8 ELSE 0
            hdr == 2 + ext + (IF masked THEN 4 ELSE 0)
        IN  IF Len(h) < hdr THEN None
            ELSE
            LET length == IF len7 = 126 THEN Unpack16(SubSeq(h, 3, 4))
                          ELSE IF len7 = 127 THEN Unpack64(SubSeq(h, 3, 10))
                          ELSE len7
            IN  IF length > FrameLimit THEN None
                ELSE IF stream.body < length THEN None
                ELSE Some([opcode |-> opcode,
                           payload |-> [n |-> length, off |-> 0, masked |-> masked]])

\* how many bytes of the stream _ws_recv_frame has read when it returns: the
\* header bytes there are when the stream ends inside the header, the header
\* when the length is over the limit, everything when the stream ends inside
\* the payload
ws_recv_consumed(stream) ==
    LET h == stream.head
        total == Len(h) + stream.body
    IN  IF Len(h) < 2 THEN Len(h)
        ELSE
        LET masked == h[2] >= 128
            len7 == h[2] % 128
            ext == IF len7 = 126 THEN 2 ELSE IF len7 = 127 THEN 8 ELSE 0
            hdr == 2 + ext + (IF masked THEN 4 ELSE 0)
        IN  IF Len(h) < hdr THEN Len(h)
            ELSE
            LET length == IF len7 = 126 THEN Unpack16(SubSeq(h, 3, 4))
                          ELSE IF len7 = 127 THEN Unpack64(SubSeq(h, 3, 10))
                          ELSE len7
            IN  IF length > FrameLimit THEN hdr
                ELSE IF total - hdr < length THEN total
                ELSE hdr + length

\* a text frame as a client writes it: masked, the header declares n payload
\* bytes and `body` bytes follow
ws_client_frame(n, body) ==
    [head |-> (IF n < 126 THEN <<129, 128 + n>>
               ELSE IF n < 65536 THEN <<129, 128 + 126>> \o Pack16(n)
               ELSE <<129, 128 + 127>> \o Pack64(n)) \o <<17, 34, 51, 68>>,
     body |-> body]

(***************************************************************************)
(* The transport delivers a stream in pieces: `cuts` are the positions      *)
(* (bytes from the start) after which a piece ends.  A recv call returns    *)
(* bytes of one piece only.                                                 *)
(***************************************************************************)
\* where the piece that holds byte pos + 1 ends
PieceEnd(cuts, pos, total) ==
    IF \E c \in cuts : c > pos /\ c < total
    THEN CHOOSE c \in cuts : c > pos /\ c < total
                              /\ \A d \in cuts : (d > pos /\ d < total) => c <= d
    ELSE total

\* sock.recv(k) with pos bytes of the stream read so far: the number of
\* bytes returned (0 at the end of the stream)
sock_recv(cuts, pos, total, k) == Min(k, PieceEnd(cuts, pos, total) - pos)

\* the payload loop of _ws_recv_frame: TRUE when `need` more bytes were read
RECURSIVE recv_payload(_, _, _, _)
recv_payload(cuts, pos, total, need) ==
    IF need <= 0 THEN TRUE
    ELSE LET chunk == sock_recv(cuts, pos, total, Min(4096, need))
         IN  IF chunk = 0 THEN FALSE
             ELSE recv_payload(cuts, pos + chunk, total, need - chunk)

\* _ws_recv_frame on a stream delivered in pieces (the header bytes of the
\* stream are all in stream.head)
ws_recv_frame_pieces(stream, cuts) ==
    LET h == stream.head
        total == Len(h) + stream.body
        header == sock_recv(cuts, 0, total, 2)
    IN  IF header < 2 THEN None
        ELSE
        LET opcode == h[1] % 16
            masked == h[2] >= 128
            len7 == h[2] % 128
            extn == IF len7 = 126 THEN 2 ELSE IF len7 = 127 THEN 8 ELSE 0
            ext_read == IF extn = 0 THEN 0 ELSE sock_recv(cuts, 2, total, extn)
        IN  IF ext_read < extn THEN None
            ELSE
            LET mask == IF masked THEN sock_recv(cuts, 2 + extn, total, 4) ELSE 0
                hdr == 2 + extn + (IF masked THEN 4 ELSE 0)
                length == IF len7 = 126 THEN Unpack16(SubSeq(h, 3, 4))
                          ELSE IF len7 = 127 THEN Unpack64(SubSeq(h, 3, 10))
                          ELSE len7
            IN  IF masked /\ mask < 4 THEN None
                ELSE IF length > FrameLimit THEN None
                ELSE IF ~recv_payload(cuts, hdr, total, length) THEN None
                ELSE Some([opcode |-> opcode,
                           payload |-> [n |-> length, off |-> 0, masked |-> masked]])

\* `opcode == 1 and payload`
IsCommandFrame(fr) == fr.opcode = 1 /\ TextLen(fr.payload) > 0

(***************************************************************************)
(* The command dispatch of _handle_websocket on a non-empty text payload:   *)
(* what the try block does before any store access.                         *)
(*   "ignore"  the except clause swallows the error, or no branch matches   *)
(*   "raise"   an exception the except clause does not name (msg.get on a   *)
(*             JSON value that is no object: AttributeError)                *)
(*   "flag"    run / relocate / end: the flag to set                        *)
(*   "upload"  _apply_upload is called with (content, filename)             *)
(***************************************************************************)
\* `action == s` for the value of msg.get("action")
ActionIs(msg, s) == msg.action.t = "str" /\ msg.action.s = s

Dispatch(body) ==
    CASE body.k = "badutf8" -> [do |-> "ignore"]
      [] body.k = "badjson" -> [do |-> "ignore"]
      [] body.k = "json" ->
           LET msg == body.v IN
           IF msg.t # "object" THEN [do |-> "raise"]
           ELSE IF ActionIs(msg, "run") THEN [do |-> "flag", flag |-> "run_requested"]
           ELSE IF ActionIs(msg, "relocate")
                THEN [do |-> "flag", flag |-> "relocate_requested"]
           ELSE IF ActionIs(msg, "end") THEN [do |-> "flag", flag |-> "end_requested"]
           ELSE IF ActionIs(msg, "upload")
                THEN IF IsStr(msg.content) /\ Truthy(msg.content)
                     THEN [do |-> "upload", content |-> msg.content,
                           filename |-> IF Truthy(msg.filename) THEN msg.filename
                                        ELSE [t |-> "path", p |-> <<"robot.py">>]]
                     ELSE [do |-> "ignore"]
           ELSE [do |-> "ignore"]

(***************************************************************************)
(* The first request of a connection, as _read_headers returns it (None:    *)
(* no request could be read), and _handle_connection's decision.            *)
(***************************************************************************)
\* str.upper() / str.lower() on the tokens the model uses
Upper(s) ==
    CASE s = "get"  -> "GET"
      [] s = "post" -> "POST"
      [] OTHER      -> s
Lower(s) ==
    CASE s = "WebSocket" -> "websocket"
      [] s = "WEBSOCKET" -> "websocket"
      [] s = "H2C"       -> "h2c"
      [] OTHER           -> s
\* urlparse(target).path
UrlPath(target) ==
    CASE target = "/ws?x=1" -> "/ws"
      [] target = "/?a=b"   -> "/"
      [] OTHER              -> target

Request(method, target, upgrade, key) ==
    [method |-> method, target |-> target, upgrade |-> upgrade, key |-> key]

\* the bytes a client sends first: whether it closes before the blank line,
\* the bytes buffered when the blank line has arrived, the number of tokens of
\* the request line, and what the request line and headers say
RawRequest(eof, size, tokens, req) ==
    [eof |-> eof, size |-> size, tokens |-> tokens, req |-> req]

\* the limit of _read_headers on the buffered bytes
HeaderLimit == 65536

\* _read_headers: None at end of stream, over the limit, or with a request
\* line of fewer than two tokens
read_headers(raw) ==
    IF raw.eof THEN None
    ELSE IF raw.size > HeaderLimit THEN None
    ELSE IF raw.tokens < 2 THEN None
    ELSE Some(raw.req)

\* _handle_http_get: the status sent
handle_http_get(path, readable) ==
    IF path \notin {"/", "/index.html"} THEN 404
    ELSE IF ~readable THEN 500
    ELSE 200

\* _http_response: every response carries "Connection: close"
http_response(status) == [status |-> status, connection |-> "close"]

(***************************************************************************)
(* The accept value of the handshake.  Strings are encoded to their bytes;  *)
(* SHA-1 and base64 are computed on bytes; the value is kept as the codes   *)
(* of its characters.                                                       *)
(***************************************************************************)
\* str.encode() of the strings of the handshake: the UTF-8 bytes
encode(s) ==
    CASE s = "dGhlIHNhbXBsZSBub25jZQ==" -> <<100, 71, 104, 108, 73, 72, 78, 104, 98, 88, 66, 115, 90, 83, 66, 117, 98, 50, 53, 106, 90, 81, 61, 61>>
      [] s = "x3JJHMbDL1EzLkh9GBhXDw==" -> <<120, 51, 74, 74, 72, 77, 98, 68, 76, 49, 69, 122, 76, 107, 104, 57, 71, 66, 104, 88, 68, 119, 61, 61>>
      [] s = "258EAFA5-E914-47DA-95CA-C5AB0DC85B11" -> <<50, 53, 56, 69, 65, 70, 65, 53, 45, 69, 57, 49, 52, 45, 52, 55, 68, 65, 45, 57, 53, 67, 65, 45, 67, 53, 65, 66, 48, 68, 67, 56, 53, 66, 49, 49>>
      [] s = "s3pPLMBiTxaQ9kYGzzhZRbK+xOo=" -> <<115, 51, 112, 80, 76, 77, 66, 105, 84, 120, 97, 81, 57, 107, 89, 71, 122, 122, 104, 90, 82, 98, 75, 43, 120, 79, 111, 61>>
      [] s = "HSmrc0sMlYUkAGmm5OPpG2HaGWk=" -> <<72, 83, 109, 114, 99, 48, 115, 77, 108, 89, 85, 107, 65, 71, 109, 109, 53, 79, 80, 112, 71, 50, 72, 97, 71, 87, 107, 61>>

WS_MAGIC == "258EAFA5-E914-47DA-95CA-C5AB0DC85B11"

\* 32-bit words are pairs <<high 16 bits, low 16 bits>>
RECURSIVE Xor16(_, _, _)
Xor16(a, b, n) ==
    IF n = 0 THEN 0 ELSE ((a + b) % 2) + 2 * Xor16(a \div 2, b \div 2, n - 1)
RECURSIVE And16(_, _, _)
And16(a, b, n) ==
    IF n = 0 THEN 0 ELSE ((a % 2) * (b % 2)) + 2 * And16(a \div 2, b \div 2, n - 1)
WXor(a, b) == <<Xor16(a[1], b[1], 16), Xor16(a[2], b[2], 16)>>
WAnd(a, b) == <<And16(a[1], b[1], 16), And16(a[2], b[2], 16)>>
WNot(a) == <<65535 - a[1], 65535 - a[2]>>
\* a | b for words
WOr(a, b) == WNot(WAnd(WNot(a), WNot(b)))
WAdd(a, b) ==
    LET lo == a[2] + b[2] IN <<(a[1] + b[1] + lo \div 65536) % 65536, lo % 65536>>
\* rotate left by n < 16 bits, and by 30
WRotl(a, n) ==
    <<((a[1] * 2^n) % 65536) + (a[2] \div 2^(16 - n)),
      ((a[2] * 2^n) % 65536) + (a[1] \div 2^(16 - n))>>
WRotl30(a) == WRotl(<<a[2], a[1]>>, 14)

\* the padded message: 0x80, zeros, the length in bits as 64 bits big-endian
Sha1Pad(m) ==
    LET bits == 8 * Len(m)
        k == (119 - Len(m)) % 64
    IN  m \o <<128>> \o [i \in 1..k |-> 0]
          \o <<0, 0, 0, 0, 0, 0, bits \div 256, bits % 256>>

\* the next word of the message schedule of the block that starts after
\* byte `off`, given the words before it
ScheduleWord(p, off, w) ==
    LET i == Len(w) IN
    IF i < 16
    THEN <<p[off + 4 * i + 1] * 256 + p[off + 4 * i + 2],
           p[off + 4 * i + 3] * 256 + p[off + 4 * i + 4]>>
    ELSE WRotl(WXor(WXor(w[i - 2], w[i - 7]), WXor(w[i - 13], w[i - 15])), 1)

\* the schedule w extended by n words (taking the length has the words so
\* far computed first)
RECURSIVE Schedule(_, _, _, _)
Schedule(p, off, w, n) ==
    IF Len(w) >= 0 /\ n = 1 THEN Append(w, ScheduleWord(p, off, w))
    ELSE Schedule(p, off, Schedule(p, off, w, n \div 2), n - n \div 2)

Sha1F(i, b, c, d) ==
    IF i < 20 THEN WOr(WAnd(b, c), WAnd(WNot(b), d))
    ELSE IF i < 40 THEN WXor(WXor(b, c), d)
    ELSE IF i < 60 THEN WOr(WOr(WAnd(b, c), WAnd(b, d)), WAnd(c, d))
    ELSE WXor(WXor(b, c), d)
Sha1K(i) ==
    IF i < 20 THEN <<23170, 31129>> ELSE IF i < 40 THEN <<28377, 60321>> ELSE IF i < 60 THEN <<36635, 48348>> ELSE <<51810, 49622>>

\* round i on the five working words <<a, b, c, d, e>>
Sha1Round(v, w, i) ==
    LET temp == WAdd(WAdd(WAdd(WAdd(WRotl(v[1], 5), Sha1F(i, v[2], v[3], v[4])),
                               v[5]), Sha1K(i)), w[i + 1])
    IN  <<temp, v[1], WRotl30(v[2]), v[3], v[4]>>

\* rounds i .. i + n - 1, by halves
RECURSIVE Rounds(_, _, _, _)
Rounds(v, w, i, n) ==
    IF Len(v) = 5 /\ n = 1 THEN Sha1Round(v, w, i)
    ELSE Rounds(Rounds(v, w, i, n \div 2), w, i + n \div 2, n - n \div 2)

RECURSIVE Blocks(_, _, _)
Blocks(p, off, h) ==
    IF Len(h) = 5 /\ off >= Len(p) THEN h
    ELSE LET v == Rounds(h, Schedule(p, off, <<>>, 80), 0, 80)
         IN  Blocks(p, off + 64, <<WAdd(h[1], v[1]), WAdd(h[2], v[2]), WAdd(h[3], v[3]),
                                   WAdd(h[4], v[4]), WAdd(h[5], v[5])>>)

Sha1Init == <<<<26437, 8961>>, <<61389, 43913>>, <<39098, 56574>>, <<4146, 21622>>, <<50130, 57840>>>>

\* hashlib.sha1(raw).digest(): 20 bytes
RECURSIVE WordBytes(_)
WordBytes(h) ==
    IF Len(h) = 0 THEN <<>>
    ELSE <<h[1][1] \div 256, h[1][1] % 256, h[1][2] \div 256, h[1][2] % 256>>
         \o WordBytes(Tail(h))
sha1(raw) == WordBytes(Blocks(Sha1Pad(raw), 0, Sha1Init))

\* base64.b64encode(...).decode(): the characters, as their codes
B64Char(i) ==
    IF i < 26 THEN 65 + i ELSE IF i < 52 THEN 71 + i ELSE IF i < 62 THEN i - 4
    ELSE IF i = 62 THEN 43 ELSE 47
RECURSIVE b64encode(_)
b64encode(b) ==
    IF Len(b) = 0 THEN <<>>
    ELSE IF Len(b) = 1
    THEN <<B64Char(b[1] \div 4), B64Char((b[1] % 4) * 16), 61, 61>>
    ELSE IF Len(b) = 2
    THEN <<B64Char(b[1] \div 4), B64Char((b[1] % 4) * 16 + b[2] \div 16),
           B64Char((b[2] % 16) * 4), 61>>
    ELSE <<B64Char(b[1] \div 4), B64Char((b[1] % 4) * 16 + b[2] \div 16),
           B64Char((b[2] % 16) * 4 + b[3] \div 64), B64Char(b[3] % 64)>>
         \o b64encode(SubSeq(b, 4, Len(b)))

\* the Sec-WebSocket-Key values of the requests
HandshakeKeys == {"dGhlIHNhbXBsZSBub25jZQ==", "x3JJHMbDL1EzLkh9GBhXDw=="}
\* a faulty variant: the key is hashed without _WS_MAGIC
ws_accept_key_without_magic_of ==
    [key \in HandshakeKeys |-> b64encode(sha1(encode(key)))]
ws_accept_key_without_magic(key) == ws_accept_key_without_magic_of[key]

\* _ws_accept_key, computed once for every key
ws_accept_key_of ==
    [key \in HandshakeKeys |-> b64encode(sha1(encode(key) \o encode(WS_MAGIC)))]
ws_accept_key(key) == ws_accept_key_of[key]

\* _handle_connection up to the call of _handle_websocket: the response sent
\* (None: nothing was sent) and whether the session loop is entered
\* a faulty variant: the Upgrade header compared as it is
IsUpgradeCaseSensitive(method, path, upgrade, key) ==
    /\ method = "GET"
    /\ path = "/ws"
    /\ OrEmpty(upgrade) = "websocket"
    /\ ~IsNone(key)
IsUpgrade(method, path, upgrade, key) ==
    /\ method = "GET"
    /\ path = "/ws"
    /\ Lower(OrEmpty(upgrade)) = "websocket"
    /\ ~IsNone(key)

handle_connection(info, readable, sendok) ==
    IF IsNone(info) THEN [resp |-> None, websocket |-> FALSE]
    ELSE LET req == Val(info)
             method == Upper(req.method)
             path == UrlPath(req.target)
         IN  IF IsUpgrade(method, path, req.upgrade, req.key)
             THEN IF sendok
                  THEN [resp |-> Some([status |-> 101, connection |-> "Upgrade",
                                        accept |-> ws_accept_key(Val(req.key))]),
                        websocket |-> TRUE]
                  ELSE [resp |-> None, websocket |-> FALSE]
             ELSE IF method = "GET"
                  THEN [resp |-> IF sendok
                                 THEN Some(http_response(handle_http_get(path, readable)))
                                 ELSE None,
                        websocket |-> FALSE]
             ELSE [resp |-> IF sendok THEN Some(http_response(404)) ELSE None,
                   websocket |-> FALSE]

(***************************************************************************)
(* The control loop of supervisor.py.  Time is counted in simulation steps  *)
(* (time_step); the grid is one row of GridCells cells, the robot's         *)
(* position is the column _world_to_grid gives (0 and GridCells + 1 are     *)
(* outside the grid).  The world has relocate pads, one boost pad (U14),    *)
(* battery pads (U19) and, for U14, one room that covers the grid.          *)
(* cleaned_ratio is kept as the number of cleaned cells; a float is kept    *)
(* as its whole part.                                                       *)
(***************************************************************************)
points_per_percent == 40
boost_pad_points == 200
relocate_penalty == 40

Cells == 1..GridCells

\* Supervisor.__init__ and the class attributes
SupervisorInit(sl) ==
    [ subleague             |-> sl,
      is_running            |-> None,
      robot                 |-> FALSE,
      robot_team_name       |-> None,
      battery_level         |-> 100,
      cleaned_squares_count |-> 0,
      ground_grid           |-> {},
      cleaned_cells         |-> 0,
      used_boost_pads       |-> FALSE,
      score_log             |-> <<>>,
      start_time            |-> None,
      last_update_time      |-> 0,
      now                   |-> 0 ]

\* the truth value of self.is_running (None is false)
Running(s) == s.is_running = Some(TRUE)

\* self.room_grid is not None
HasRooms(s) == s.subleague \in {"U14", "FS"}

RECURSIVE SumPoints(_)
SumPoints(log) ==
    IF Len(log) = 0 THEN 0 ELSE log[1].points + SumPoints(Tail(log))

\* cleaned_ratio * 100.0 and int(cleaned_ratio * 100.0 * points_per_percent)
CleanedPercent(count) == IF GridCells > 0 THEN (100 * count) \div GridCells ELSE 0
CleanedPoints(count) ==
    IF GridCells > 0 THEN (100 * count * points_per_percent) \div GridCells ELSE 0

\* the cells within ground_clean_radius of column ix
Around(ix) == {ix - 1, ix, ix + 1} \cap Cells

\* a faulty variant: a cell is counted every time the robot passes
update_cleaning_counts_again(s, ix) ==
    [s EXCEPT !.ground_grid = s.ground_grid \cup Around(ix),
              !.cleaned_squares_count = s.cleaned_squares_count + Cardinality(Around(ix)),
              !.cleaned_cells = IF HasRooms(s) THEN s.cleaned_cells + Cardinality(Around(ix))
                                ELSE s.cleaned_cells]

\* _update_cleaning: the cells not yet cleaned are marked and counted
update_cleaning(s, ix) ==
    LET new == Around(ix) \ s.ground_grid IN
    [s EXCEPT !.ground_grid = s.ground_grid \cup new,
              !.cleaned_squares_count = s.cleaned_squares_count + Cardinality(new),
              !.cleaned_cells = IF HasRooms(s) THEN s.cleaned_cells + Cardinality(new)
                                ELSE s.cleaned_cells]

\* _update_room_cleaning
update_room_cleaning(s, ix) ==
    IF HasRooms(s)
    THEN [current_room |-> IF ix \in Cells THEN 0 ELSE -1,
          room_pcts |-> << <<0, IF GridCells > 0 THEN (100 * s.cleaned_cells) \div GridCells
                                ELSE 0>> >>]
    ELSE [current_room |-> -1, room_pcts |-> <<>>]

\* _remove_robot
remove_robot(s) ==
    [s EXCEPT !.robot = FALSE,
              !.robot_team_name = None,
              !.battery_level = 0,
              !.is_running = Some(FALSE)]

\* _update_boost: the pad gives its points once
update_boost(s, on_pad) ==
    IF s.subleague # "U19" /\ on_pad /\ ~s.used_boost_pads
    THEN [s EXCEPT !.used_boost_pads = TRUE,
                   !.score_log = Append(s.score_log,
                                        [source |-> "boost", points |-> boost_pad_points])]
    ELSE s

\* _update_battery: drain, recharge on a pad, game over when empty
update_battery(s, on_pad) ==
    IF s.subleague # "U19" \/ ~s.robot \/ ~Running(s) THEN s
    ELSE LET level == IF on_pad THEN 100 ELSE Max(0, s.battery_level - BatteryDrain) IN
         IF level <= 0
         THEN remove_robot([s EXCEPT !.battery_level = level])
         ELSE [s EXCEPT !.battery_level = level]

\* _relocate_robot
relocate_robot(s) ==
    IF ~s.robot THEN s
    ELSE [s EXCEPT !.score_log = Append(s.score_log,
                                        [source |-> "relocate", points |-> -relocate_penalty])]

\* reset, with what getFromDef("VACUUM") returns at the end of _add_robot:
\* the node (found) or None
reset(s, found) ==
    [remove_robot(s) EXCEPT !.ground_grid = {},
                            !.cleaned_squares_count = 0,
                            !.score_log = <<>>,
                            !.cleaned_cells = 0,
                            !.battery_level = 100,
                            !.used_boost_pads = FALSE,
                            !.start_time = Some(s.now),
                            !.last_update_time = 0,
                            !.is_running = Some(TRUE),
                            !.robot = found]

\* an update_score call of the loop: its arguments, the cleaned cells the
\* score was computed from and the statement that made it
ScoreCall(points, count, remaining, game_over, log, path) ==
    [points |-> points, percent |-> CleanedPercent(count), remaining |-> remaining,
     game_over |-> game_over, log |-> log, count |-> count, path |-> path]

\* the update_score call of _update_data (434-436, 465)
update_data_call(s, remaining) ==
    ScoreCall(1000 + CleanedPoints(s.cleaned_squares_count) + SumPoints(s.score_log),
              s.cleaned_squares_count, remaining, s.is_running = Some(FALSE),
              s.score_log, "update_data")

\* the update_score call of the End button (544-548, 551)
end_call(s) ==
    ScoreCall(CleanedPoints(s.cleaned_squares_count) + SumPoints(s.score_log),
              s.cleaned_squares_count, 0, TRUE, s.score_log, "end")

\* the loop body from line 556 to line 582, the robot is there and the run
\* is on, with the inputs the simulation gives it (the robot's column,
\* whether it stands on a pad, the team name in its customData): the
\* supervisor after it, the locals, whether _update_data is due
run_body(s, in) ==
    LET s1 == IF IsNone(in.team) THEN s ELSE [s EXCEPT !.robot_team_name = in.team]
        s2 == update_cleaning(s1, in.ix)
        rooms == update_room_cleaning(s2, in.ix)
        start == IF IsNone(s.start_time) \/ s.start_time = Some(0) THEN s.now
                 ELSE Val(s.start_time)
        remaining == Max(0, RunLimit - (s.now - start))
        s3 == IF s2.subleague = "U19" THEN update_battery(s2, in.on_pad)
              ELSE IF s2.subleague \in {"U14", "FS"} THEN update_boost(s2, in.on_pad)
              ELSE s2
        timeup == remaining <= 0 /\ Running(s3)
        s4 == IF timeup THEN remove_robot(s3) ELSE s3
    IN  [sup |-> s4,
         remaining |-> remaining,
         rooms |-> rooms,
         publish |-> s4.last_update_time = 0 \/ s4.now - s4.last_update_time >= UpdatePeriod,
         ended |-> IF ~Running(s3) THEN "battery" ELSE IF timeup THEN "time" ELSE "none"]

(***************************************************************************)
(* State.  Thread 0 is the broadcaster; thread c in Conns is the handler    *)
(* thread of connection c.                                                  *)
(***************************************************************************)
VARIABLES
    State,                \* _STATE: the fields of _SharedState
    robot_py,             \* the bytes of robot/robot.py (its size), None: not written
    ws_clients,           \* _ws_clients
    last_broadcast_json,  \* _last_broadcast_json
    pc,                   \* where each thread is
    payload,              \* the local `payload` of a thread sending a snapshot
    saved,                \* per handler thread: what its last _apply_upload returned
    sock,                 \* the server's socket of a connection
    peer,                 \* the client's end of a connection
    resp,                 \* the HTTP response a connection was sent
    sent,                 \* the WebSocket messages written to a connection, in order
    nsets,                \* setter calls made so far
    ncmds,                \* frames read so far
    since,                \* per flag: the threads that were asked for it since its last consume
    tick,                 \* the broadcaster's last two ticks (see TickInit)
    last,                 \* the last call from outside (request, frame, consume): input, result
    upload,               \* per handler thread: the arguments of its _apply_upload call in progress
    wire,                 \* the frame written to a socket and not yet read: its payload length, its bytes
    ext,                  \* the external loop's thread: idle, or inside a setter with its arguments
    heap,                 \* the dict and list objects of the store, and the snapshots callers hold
    sup,                  \* the attributes of the Supervisor object
    pub,                  \* what the control loop did in this iteration and in this run
    loop,                 \* where the control loop is in its iteration, and the locals of run
    state_lock,           \* _STATE.lock: the thread that holds it, None when it is free
    wr                    \* per thread inside _ws_send_text: the socket it writes to; the
                          \* sockets the send loop of _broadcast_state has been through

vars == <<State, robot_py, ws_clients, last_broadcast_json, pc, payload, saved, sock,
          peer, resp, sent, nsets, ncmds, since, tick, last, upload, wire, ext, heap,
          sup, pub, loop, state_lock, wr>>

Threads == {0} \cup Conns

\* The objects behind the store's two mutable fields.  val[i] is the content
\* of object i; room and log are the objects _STATE.room_pcts and
\* _STATE.score_log are bound to; held are the dicts get_state_snapshot has
\* returned: their values at the return, and the objects their roomPcts and
\* scoreLog entries are bound to.
HeapInit == [val |-> << <<>>, <<>> >>, room |-> 1, log |-> 2, held |-> <<>>]

\* The writes in progress:
\*   at    per thread, the socket whose sendall it is inside (None: none)
\*   done  per thread, the sockets its send loop has been through
\*   dead  per thread, the sockets whose send raised in its send loop
WrInit == [at   |-> [t \in Threads |-> None],
           done |-> [t \in Threads |-> {}],
           dead |-> [t \in Threads |-> {}]]

\* What is remembered of the control loop:
\*   run     the runs started so far
\*   n       the update_score calls of this run
\*   runs    for every entry of self.score_log, the run that appended it
\*   shown   for every entry of the store's score_log, the run that appended it
\*   calls   the update_score calls of this iteration
\*   acted   the buttons this iteration has acted on
\*   seen    the button flags that were set when this iteration began and that
\*           it has not consumed
\*   at      the frames that had been read when this iteration began
\*   left    the button flags that were set when the iteration before this
\*           one began and that it did not consume
\*   ncmds   the frames that had been read when the iteration before began
\*   ended   what ended the run: "none", "end", "time" or "battery"
PubInit == [run |-> 0, n |-> 0, runs |-> <<>>, shown |-> <<>>, calls |-> <<>>,
            acted |-> {}, seen |-> {}, at |-> 0, left |-> {}, ncmds |-> 0,
            ended |-> "none"]

\* The control loop is at the top of its iteration, and the locals of run
\* that _update_data is passed
LoopInit == [pc |-> "step", remaining |-> 0, current_room |-> -1, room_pcts |-> <<>>]

\* What is remembered of the broadcaster's ticks:
\*   prev   the snapshot the tick before the last one took (None: there was none)
\*   cur    the snapshot the last tick took (None: no tick yet)
TickInit == [prev |-> None, cur |-> None]

Init ==
    /\ State = SharedStateInit
    /\ robot_py = None
    /\ ws_clients = {}
    /\ last_broadcast_json = None
    /\ pc = [t \in Threads |-> IF t = 0 THEN "sleep" ELSE "idle"]
    /\ payload = [t \in Threads |-> None]
    /\ saved = [c \in Conns |-> None]
    /\ sock = [c \in Conns |-> "none"]
    /\ peer = [c \in Conns |-> "none"]
    /\ resp = [c \in Conns |-> None]
    /\ sent = [c \in Conns |-> <<>>]
    /\ nsets = 0
    /\ ncmds = 0
    /\ since = [f \in FlagNames |-> <<>>]
    /\ tick = TickInit
    /\ last = [op |-> "init"]
    /\ upload = [c \in Conns |-> None]
    /\ wire = None
    /\ ext = [pc |-> "idle"]
    /\ heap = HeapInit
    /\ sup = SupervisorInit("U19")
    /\ pub = PubInit
    /\ loop = LoopInit
    /\ state_lock = None
    /\ wr = WrInit

(***************************************************************************)
(* _STATE.lock, and the external control loop: setter calls and consume     *)
(* calls.  Each is one critical section of _STATE.lock.                     *)
(***************************************************************************)
\* the external loop's thread is inside a setter: inside its `with _STATE.lock:`
SetterUnlocked(e) == FALSE
SetterHoldsLock(e) == e.pc # "idle"
\* the lock is free: no server thread is inside a `with _STATE.lock:` block
\* and the external loop's thread is not inside a setter
StateLockFree ==
    /\ IsNone(state_lock)
    /\ ~SetterHoldsLock(ext)
\* server thread t can run its `with _STATE.lock:` block: it holds the lock,
\* or the lock is free and it takes and releases it in that step
StateLockOpenTo(t) ==
    /\ IsNone(state_lock) \/ state_lock = Some(t)
    /\ ~SetterHoldsLock(ext)
\* the next statement of server thread t is a `with _STATE.lock:` block: of
\* get_state_snapshot (called at lines 349 and 387) or of _apply_upload (267)
AtStateLock(t) ==
    \/ t = 0 /\ pc[t] = "sleep"
    \/ t # 0 /\ pc[t] \in {"ws_snapshot", "bc_snapshot", "upload_commit", "call_commit"}

\* thread t enters the block: it has the lock and has not yet read or written
\* a field
StateLockAcquire(t) ==
    /\ AtStateLock(t)
    /\ StateLockFree
    /\ state_lock' = Some(t)
    /\ UNCHANGED <<wr, sup, pub, loop, ext, heap, wire, upload, State, robot_py, ws_clients,
                   last_broadcast_json, pc, payload, saved, sock, peer, resp, sent, nsets,
                   ncmds, since, tick, last>>

ExtCall(S) ==
    /\ nsets < MaxSets
    /\ StateLockFree
    /\ nsets' = nsets + 1
    /\ State' = S
    /\ UNCHANGED <<wr, sup, pub, loop, state_lock, ext, heap, wire, upload, robot_py, ws_clients, last_broadcast_json, pc, payload, saved, sock,
                   peer, resp, sent, ncmds, since, tick, last>>

ExtUpdateScore(in) == ExtCall(update_score(State, in[1], in[2], in[3], in[4], in[5]))
ExtSetTeamName(name) == ExtCall(set_team_name(State, name))
ExtSetBattery(b) == ExtCall(set_battery(State, b))
ExtSetRoomStats(in) == ExtCall(set_room_stats(State, in[1], in[2]))
ExtSetSubleague(s) == ExtCall(set_subleague(State, s))

ExtConsume(f) ==
    LET r == Consume(State, f) IN
    /\ StateLockFree
    /\ State' = r.state
    /\ since' = [since EXCEPT ![f] = <<>>]
    /\ last' = [op |-> "consume", flag |-> f, ret |-> r.ret, k |-> since[f]]
    /\ UNCHANGED <<wr, sup, pub, loop, state_lock, ext, heap, wire, upload, robot_py, ws_clients, last_broadcast_json, pc, payload, saved, sock,
                   peer, resp, sent, nsets, ncmds, tick>>

(***************************************************************************)
(* socket.sendall on connection c.  It raises OSError on a closed socket;   *)
(* once the peer is gone it raises, or (c in `lost`) returns and the bytes  *)
(* are lost.                                                                *)
(***************************************************************************)
SendFails(c, lost) == sock[c] # "open" \/ (peer[c] # "up" /\ c \notin lost)

(***************************************************************************)
(* _DashboardHandler.handle / _handle_connection: the request is read and   *)
(* answered.                                                                *)
(***************************************************************************)
Connect(c, info, readable, sendok) ==
    LET r == handle_connection(info, readable, sendok) IN
    /\ pc[c] = "idle"
    /\ resp' = [resp EXCEPT ![c] = r.resp]
    /\ peer' = [peer EXCEPT ![c] = "up"]
    /\ sock' = [sock EXCEPT ![c] = IF r.websocket THEN "open" ELSE "closed"]
    /\ pc' = [pc EXCEPT ![c] = IF r.websocket THEN "ws_add" ELSE "done"]
    /\ last' = [op |-> "connect", c |-> c, info |-> info, readable |-> readable,
                sendok |-> sendok]
    /\ UNCHANGED <<wr, sup, pub, loop, state_lock, ext, heap, wire, upload, State, robot_py, ws_clients, last_broadcast_json, payload, saved,
                   sent, nsets, ncmds, since, tick>>

\* the client closes or resets the connection
\* the client stops reading: a send to it blocks (the sockets have no timeout)
PeerStalls(c) ==
    /\ pc[c] = "recv"
    /\ sock[c] = "open"
    /\ peer[c] = "up"
    /\ peer' = [peer EXCEPT ![c] = "stalled"]
    /\ UNCHANGED <<wr, sup, pub, loop, state_lock, ext, heap, wire, upload, State, robot_py, ws_clients, last_broadcast_json, pc, payload, saved,
                   sock, resp, sent, nsets, ncmds, since, tick, last>>

PeerGone(c) ==
    /\ sock[c] = "open"
    /\ peer[c] = "up"
    /\ peer' = [peer EXCEPT ![c] = "gone"]
    /\ UNCHANGED <<wr, sup, pub, loop, state_lock, ext, heap, wire, upload, State, robot_py, ws_clients, last_broadcast_json, pc, payload, saved,
                   sock, resp, sent, nsets, ncmds, since, tick, last>>

(***************************************************************************)
(* _handle_websocket: registration, the initial snapshot, the frame loop,   *)
(* the finally clause.                                                      *)
(***************************************************************************)
\* _ws_clients_lock is free: no thread is inside the send loop of
\* _broadcast_state (every other block under this lock is one step)
ClientsLockFree == \A t \in Threads : pc[t] # "bc_loop"

WsAdd(c) ==
    /\ pc[c] = "ws_add"
    /\ ClientsLockFree
    /\ ws_clients' = ws_clients \cup {c}
    /\ pc' = [pc EXCEPT ![c] = "ws_snapshot"]
    /\ UNCHANGED <<wr, sup, pub, loop, state_lock, ext, heap, wire, upload, State, robot_py, last_broadcast_json, payload, saved, sock, peer,
                   resp, sent, nsets, ncmds, since, tick, last>>

WsSnapshot(c) ==
    /\ pc[c] = "ws_snapshot"
    /\ StateLockOpenTo(c)
    /\ state_lock' = None
    /\ payload' = [payload EXCEPT ![c] = Some(get_state_snapshot(State))]
    /\ pc' = [pc EXCEPT ![c] = "ws_send"]
    /\ UNCHANGED <<wr, sup, pub, loop, ext, heap, wire, upload, State, robot_py, ws_clients, last_broadcast_json, saved, sock, peer,
                   resp, sent, nsets, ncmds, since, tick, last>>

\* the initial send; an OSError is passed over
WsSend(c, lost) ==
    /\ pc[c] = "ws_send"
    /\ lost \subseteq {d \in {c} : peer[d] # "up"}
    /\ sent' = IF SendFails(c, lost) THEN sent
               ELSE [sent EXCEPT ![c] = Append(@, [src |-> "init",
                                                   data |-> JsonDumps(Val(payload[c]))])]
    /\ payload' = [payload EXCEPT ![c] = None]
    /\ pc' = [pc EXCEPT ![c] = "recv"]
    /\ UNCHANGED <<wr, sup, pub, loop, state_lock, ext, heap, wire, upload, State, robot_py, ws_clients, last_broadcast_json, saved, sock, peer,
                   resp, nsets, ncmds, since, tick, last>>

(***************************************************************************)
(* One pass of the frame loop on the result r of _ws_recv_frame: what the   *)
(* store and the file become and where the thread goes next:                *)
(*   "recv"         read the next frame                                     *)
(*   "exit"         leave the loop (break, or an exception that escapes)    *)
(*   "bc_snapshot"  _broadcast_state() is called                            *)
(* `saved` is what _apply_upload returned (None also when it was not        *)
(* called).                                                                 *)
(***************************************************************************)
handle_frame(S, file, r, fs) ==
    LET stay == [state |-> S, file |-> file, next |-> "recv", saved |-> None]
        exit == [stay EXCEPT !.next = "exit"]
    IN  IF IsNone(r) THEN exit
        ELSE IF Val(r).opcode = 8 THEN exit
        ELSE IF ~IsCommandFrame(Val(r)) THEN stay
        ELSE LET d == Dispatch(Val(r).payload) IN
             CASE d.do = "ignore" -> stay
               [] d.do = "raise"  -> exit
               [] d.do = "flag"   ->
                    [stay EXCEPT !.state = [S EXCEPT ![d.flag] = TRUE]]
               [] d.do = "upload" ->
                    LET u == apply_upload(S, file, d.content, d.filename, fs) IN
                    [state |-> u.state, file |-> u.file,
                     next |-> CASE u.end = "oserror"   -> "exit"
                                [] u.end = "typeerror" -> "recv"
                                [] OTHER               -> "bc_snapshot",
                     saved |-> u.saved]

\* the flag a frame's command asks to set, "none" when it asks for none: the
\* action of a JSON object, for an upload the flag of an upload that was saved
CommandFlag(frame, wasSaved) ==
    IF frame.opcode # 1 \/ frame.body.k # "json" THEN "none"
    ELSE IF frame.body.v.t # "object" \/ frame.body.v.action.t # "str" THEN "none"
    ELSE CASE frame.body.v.action.s = "run"      -> "run_requested"
           [] frame.body.v.action.s = "relocate" -> "relocate_requested"
           [] frame.body.v.action.s = "end"      -> "end_requested"
           [] frame.body.v.action.s = "upload"   ->
                IF wasSaved THEN "new_code_available" ELSE "none"
           [] OTHER -> "none"

\* the handler threads whose commands asked for a flag, in order, at most MaxCount
Note(seq, c) == IF Len(seq) < MaxCount THEN Append(seq, c) ELSE seq

\* what _ws_recv_frame returned is an upload that _apply_upload takes as far
\* as the file: the content decodes and is within the size limit
ReachesFile(r) ==
    /\ ~IsNone(r)
    /\ IsCommandFrame(Val(r))
    /\ Dispatch(Val(r).payload).do = "upload"
    /\ ~IsNone(b64decode(Dispatch(Val(r).payload).content.b))
    /\ Val(b64decode(Dispatch(Val(r).payload).content.b)) <= UploadLimit

\* the thread reads a frame the client has sent and handles it up to the next
\* frame, the _broadcast_state call or the end of the loop; for an upload
\* that reaches the file, up to the file: open and write (no lock held) and
\* the update of the store (under _STATE.lock) are the steps UploadOpen,
\* UploadWrite and UploadCommit.  A run, relocate or end command takes _STATE.lock.
WsRecv(c, frame) ==
    LET r == ws_recv_frame(sock[c] = "open", peer[c] = "up", frame)
        h == handle_frame(State, robot_py, r, FsOk)
        d == Dispatch(Val(r).payload)
        f == IF IsNone(r) THEN "none" ELSE CommandFlag(frame, FALSE)
    IN  /\ pc[c] = "recv"
        /\ sock[c] = "open"
        /\ peer[c] = "up"
        /\ ncmds < MaxCmds
        /\ ncmds' = ncmds + 1
        /\ last' = [op |-> "recv", c |-> c, frame |-> frame]
        /\ IF ReachesFile(r)
           THEN /\ upload' = [upload EXCEPT ![c] = Some([content |-> d.content,
                                                         filename |-> d.filename,
                                                         frame |-> frame])]
                /\ pc' = [pc EXCEPT ![c] = "upload_open"]
                /\ UNCHANGED <<State, robot_py, saved, since>>
           ELSE /\ f # "none" => StateLockFree
                /\ State' = h.state
                /\ robot_py' = h.file
                /\ pc' = [pc EXCEPT ![c] = h.next]
                /\ saved' = [saved EXCEPT ![c] = h.saved]
                /\ since' = IF f = "none" THEN since ELSE [since EXCEPT ![f] = Note(@, c)]
                /\ UNCHANGED upload
        /\ UNCHANGED <<wr, sup, pub, loop, state_lock, ext, heap, wire, ws_clients, last_broadcast_json, payload, sock, peer, resp, sent,
                       nsets, tick>>

\* the frame read is an upload that reaches the file
UploadBegin(c, frame) ==
    /\ ReachesFile(ws_recv_frame(sock[c] = "open", peer[c] = "up", frame))
    /\ WsRecv(c, frame)

\* the size of the content thread c is saving
UploadBytes(c) == Val(b64decode(Val(upload[c]).content.b))

\* a faulty variant: _STATE.lock is taken before the file is opened and is
\* held while it is written
UploadOpenUnderLock(c, fs) ==
    LET o == upload_open(robot_py, fs)
    IN  /\ pc[c] = "upload_open"
        /\ StateLockFree
        /\ state_lock' = IF o.end = "open" THEN Some(c) ELSE None
        /\ robot_py' = o.file
        /\ pc' = [pc EXCEPT ![c] = CASE o.end = "open"    -> "upload_write"
                                     [] o.end = "oserror" -> "exit"
                                     [] OTHER             -> "bc_snapshot"]
        /\ upload' = IF o.end = "open" THEN upload ELSE [upload EXCEPT ![c] = None]
        /\ saved' = [saved EXCEPT ![c] = None]
        /\ UNCHANGED <<wr, sup, pub, loop, ext, heap, wire, State, ws_clients, last_broadcast_json, payload, sock, peer, resp,
                       sent, nsets, ncmds, since, tick, last>>

\* mkdir and open: the file is there and empty (no lock is held)
UploadOpen(c, fs) ==
    LET o == upload_open(robot_py, fs)
    IN  /\ pc[c] = "upload_open"
        /\ robot_py' = o.file
        /\ pc' = [pc EXCEPT ![c] = CASE o.end = "open"    -> "upload_write"
                                     [] o.end = "oserror" -> "exit"
                                     [] OTHER             -> "bc_snapshot"]
        /\ upload' = IF o.end = "open" THEN upload ELSE [upload EXCEPT ![c] = None]
        /\ saved' = [saved EXCEPT ![c] = None]
        /\ UNCHANGED <<wr, sup, pub, loop, state_lock, ext, heap, wire, State, ws_clients, last_broadcast_json, payload, sock, peer, resp,
                       sent, nsets, ncmds, since, tick, last>>

\* write and close (no lock is held), and the name to save is taken from the
\* file name
UploadWrite(c, fs) ==
    LET w == upload_write(robot_py, UploadBytes(c), fs)
        name == saved_name(Val(upload[c]).filename)
        goes == w.end = "written" /\ ~IsNone(name)
    IN  /\ pc[c] = "upload_write"
        /\ robot_py' = w.file
        /\ pc' = [pc EXCEPT ![c] = IF w.end # "written" THEN "bc_snapshot"
                                     ELSE IF IsNone(name) THEN "recv"
                                     ELSE "upload_commit"]
        /\ upload' = IF goes THEN upload ELSE [upload EXCEPT ![c] = None]
        /\ UNCHANGED <<wr, sup, pub, loop, state_lock, ext, heap, wire, State, ws_clients, last_broadcast_json, payload, sock, peer, resp,
                       sent, saved, nsets, ncmds, since, tick, last>>

UploadCommit(c) ==
    LET name == saved_name(Val(upload[c]).filename)
    IN  /\ pc[c] = "upload_commit"
        /\ StateLockOpenTo(c)
        /\ state_lock' = None
        /\ State' = upload_commit(State, name)
        /\ saved' = [saved EXCEPT ![c] = name]
        /\ since' = [since EXCEPT !["new_code_available"] = Note(@, c)]
        /\ upload' = [upload EXCEPT ![c] = None]
        /\ pc' = [pc EXCEPT ![c] = "bc_snapshot"]
        /\ UNCHANGED <<wr, sup, pub, loop, ext, heap, wire, robot_py, ws_clients, last_broadcast_json, payload, sock, peer,
                       resp, sent, nsets, ncmds, tick, last>>

\* the read fails: the socket was closed under the thread, or the client is gone
WsRecvNone(c) ==
    LET r == ws_recv_frame(sock[c] = "open", peer[c] = "up", Frame(8, Raw(0)))
        h == handle_frame(State, robot_py, r, FsOk)
    IN  /\ pc[c] = "recv"
        /\ sock[c] # "open" \/ peer[c] # "up"
        /\ pc' = [pc EXCEPT ![c] = h.next]
        /\ UNCHANGED <<wr, sup, pub, loop, state_lock, ext, heap, wire, upload, State, robot_py, ws_clients, last_broadcast_json, payload, saved,
                       sock, peer, resp, sent, nsets, ncmds, since, tick, last>>

\* the finally clause: discard under _ws_clients_lock, then close
WsDiscard(c) ==
    /\ pc[c] = "exit"
    /\ ClientsLockFree
    /\ ws_clients' = ws_clients \ {c}
    /\ pc' = [pc EXCEPT ![c] = "close"]
    /\ UNCHANGED <<wr, sup, pub, loop, state_lock, ext, heap, wire, upload, State, robot_py, last_broadcast_json, payload, saved, sock, peer,
                   resp, sent, nsets, ncmds, since, tick, last>>

WsClose(c) ==
    /\ pc[c] = "close"
    /\ sock' = [sock EXCEPT ![c] = "closed"]
    /\ pc' = [pc EXCEPT ![c] = "done"]
    /\ UNCHANGED <<wr, sup, pub, loop, state_lock, ext, heap, wire, upload, State, robot_py, ws_clients, last_broadcast_json, payload, saved,
                   peer, resp, sent, nsets, ncmds, since, tick, last>>

\* _apply_upload(content_b64, filename) called on its own by thread c, which
\* serves no connection: the content is decoded; the file is written with no
\* lock held; the store is updated under _STATE.lock
CallApplyUpload(c, b, name) ==
    LET content == [t |-> "b64", b |-> b]
        early == IsNone(b64decode(b)) \/ Val(b64decode(b)) > UploadLimit
    IN  /\ pc[c] = "idle"
        /\ sock[c] = "none"
        /\ ncmds < MaxCmds
        /\ ncmds' = ncmds + 1
        /\ IF early
           THEN /\ last' = [op |-> "apply_upload", frame |-> Upload(b, name),
                            end |-> "none", saved |-> None]
                /\ UNCHANGED <<pc, upload>>
           ELSE /\ last' = [op |-> "apply_upload_call", frame |-> Upload(b, name)]
                /\ pc' = [pc EXCEPT ![c] = "call_open"]
                /\ upload' = [upload EXCEPT ![c] = Some([content |-> content, filename |-> name,
                                                         frame |-> Upload(b, name)])]
        /\ UNCHANGED <<wr, sup, pub, loop, state_lock, ext, heap, wire, State, robot_py, since, ws_clients, last_broadcast_json, payload,
                       saved, sock, peer, resp, sent, nsets, tick>>

CallApplyUploadOpen(c, fs) ==
    LET o == upload_open(robot_py, fs)
    IN  /\ pc[c] = "call_open"
        /\ robot_py' = o.file
        /\ IF o.end = "open"
           THEN /\ pc' = [pc EXCEPT ![c] = "call_write"]
                /\ UNCHANGED <<upload, last>>
           ELSE /\ pc' = [pc EXCEPT ![c] = "idle"]
                /\ upload' = [upload EXCEPT ![c] = None]
                /\ last' = [op |-> "apply_upload", frame |-> Val(upload[c]).frame,
                            end |-> o.end, saved |-> None]
        /\ UNCHANGED <<wr, sup, pub, loop, state_lock, ext, heap, wire, State, since, ws_clients, last_broadcast_json, payload, saved,
                       sock, peer, resp, sent, nsets, ncmds, tick>>

CallApplyUploadWrite(c, fs) ==
    LET w == upload_write(robot_py, UploadBytes(c), fs)
        name == saved_name(Val(upload[c]).filename)
    IN  /\ pc[c] = "call_write"
        /\ robot_py' = w.file
        /\ IF w.end = "written" /\ ~IsNone(name)
           THEN /\ pc' = [pc EXCEPT ![c] = "call_commit"]
                /\ UNCHANGED <<upload, last>>
           ELSE /\ pc' = [pc EXCEPT ![c] = "idle"]
                /\ upload' = [upload EXCEPT ![c] = None]
                /\ last' = [op |-> "apply_upload", frame |-> Val(upload[c]).frame,
                            end |-> IF w.end = "written" THEN "typeerror" ELSE "none",
                            saved |-> None]
        /\ UNCHANGED <<wr, sup, pub, loop, state_lock, ext, heap, wire, State, since, ws_clients, last_broadcast_json, payload, saved,
                       sock, peer, resp, sent, nsets, ncmds, tick>>

CallApplyUploadCommit(c) ==
    LET name == saved_name(Val(upload[c]).filename)
    IN  /\ pc[c] = "call_commit"
        /\ StateLockOpenTo(c)
        /\ state_lock' = None
        /\ State' = upload_commit(State, name)
        /\ since' = [since EXCEPT !["new_code_available"] = Note(@, c)]
        /\ pc' = [pc EXCEPT ![c] = "idle"]
        /\ upload' = [upload EXCEPT ![c] = None]
        /\ last' = [op |-> "apply_upload", frame |-> Val(upload[c]).frame,
                    end |-> "saved", saved |-> name]
        /\ UNCHANGED <<wr, sup, pub, loop, ext, heap, wire, robot_py, ws_clients, last_broadcast_json, payload, saved,
                       sock, peer, resp, sent, nsets, ncmds, tick>>

(***************************************************************************)
(* _broadcast_state, called by the broadcaster (thread 0, from              *)
(* _broadcaster_loop after its sleep) or by a handler thread after an       *)
(* upload: the snapshot; the comparison under _broadcast_lock; the sends    *)
(* under _ws_clients_lock.                                                  *)
(***************************************************************************)
Home(t) == IF t = 0 THEN "sleep" ELSE "recv"
AtCall(t) == IF t = 0 THEN pc[t] = "sleep" ELSE pc[t] = "bc_snapshot"

BcSnapshot(t) ==
    /\ AtCall(t)
    /\ StateLockOpenTo(t)
    /\ state_lock' = None
    /\ payload' = [payload EXCEPT ![t] = Some(get_state_snapshot(State))]
    /\ pc' = [pc EXCEPT ![t] = "bc_compare"]
    /\ tick' = IF t = 0
               THEN [tick EXCEPT !.prev = tick.cur, !.cur = Some(get_state_snapshot(State))]
               ELSE tick
    /\ UNCHANGED <<wr, sup, pub, loop, ext, heap, wire, upload, State, robot_py, ws_clients, last_broadcast_json, saved, sock, peer,
                   resp, sent, nsets, ncmds, since, last>>

\* the critical section of _broadcast_lock: whether to send, and the cache
broadcast_compare(cache, new_json) ==
    IF Some(new_json) = cache THEN [send |-> FALSE, cache |-> cache]
    ELSE [send |-> TRUE, cache |-> Some(new_json)]

BcCompare(t) ==
    LET r == broadcast_compare(last_broadcast_json, JsonDumpsSorted(Val(payload[t]))) IN
    /\ pc[t] = "bc_compare"
    /\ last_broadcast_json' = r.cache
    /\ pc' = [pc EXCEPT ![t] = IF r.send THEN "bc_send" ELSE Home(t)]
    /\ payload' = IF r.send THEN payload ELSE [payload EXCEPT ![t] = None]
    /\ UNCHANGED <<wr, sup, pub, loop, state_lock, ext, heap, wire, upload, State, robot_py, ws_clients, sock, peer, resp, sent, saved, nsets,
                   ncmds, since, tick, last>>

\* the end of the critical section of _ws_clients_lock: of the clients of the
\* set, those whose send raised (fails) are discarded and closed
\* a faulty variant: a client whose send failed is closed and stays in the set
broadcast_send_keeps_closed(clients, fails) ==
    [dead |-> {c \in clients : fails[c]}, live |-> clients]

\* a faulty variant: a client whose send failed is kept
broadcast_send_keeps_dead(clients, fails) == [dead |-> {}, live |-> clients]

\* a faulty variant: a failed send drops every client of the set
broadcast_send_drops_all(clients, fails) ==
    IF \E c \in clients : fails[c]
    THEN [dead |-> clients, live |-> {}]
    ELSE [dead |-> {}, live |-> clients]

broadcast_send(clients, fails) ==
    [dead |-> {c \in clients : fails[c]}, live |-> {c \in clients : ~fails[c]}]

\* The thread takes _ws_clients_lock (line 355) and starts with no dead
\* socket.
BcEnter(t) ==
    /\ pc[t] = "bc_send"
    /\ ClientsLockFree
    /\ pc' = [pc EXCEPT ![t] = "bc_loop"]
    /\ UNCHANGED <<wr, sup, pub, loop, state_lock, ext, heap, wire, upload, State, robot_py, ws_clients, last_broadcast_json, payload, saved,
                   sock, peer, resp, sent, nsets, ncmds, since, tick, last>>

\* One pass of the send loop, in the order the set gives its sockets: the
\* frame is sent to the next client c, or the send raises and c is put in
\* `dead`.  sendall to a client that has stopped reading does not return,
\* and the thread stays inside with the lock held (on a closed socket it
\* raises at once).
BcSend(t, c, lost) ==
    /\ pc[t] = "bc_loop"
    /\ wr.at[t] = None
    /\ c \in ws_clients \ wr.done[t]
    /\ peer[c] # "stalled" \/ sock[c] # "open"
    /\ lost \subseteq {d \in {c} : peer[d] # "up"}
    /\ sent' = IF SendFails(c, lost) THEN sent
               ELSE [sent EXCEPT ![c] = Append(@, [src |-> "bcast",
                                                   data |-> JsonDumps(Val(payload[t]))])]
    /\ wr' = [wr EXCEPT !.done[t] = @ \cup {c},
                        !.dead[t] = IF SendFails(c, lost) THEN @ \cup {c} ELSE @]
    /\ UNCHANGED <<sup, pub, loop, state_lock, ext, heap, wire, upload, State, robot_py, ws_clients,
                   last_broadcast_json, pc, payload, saved, sock, peer, resp, nsets, ncmds,
                   since, tick, last>>

\* The set has been gone through: the dead sockets are discarded and closed
\* and the lock is released.
BcLeave(t) ==
    LET r == broadcast_send(ws_clients, [c \in Conns |-> c \in wr.dead[t]])
    IN  /\ pc[t] = "bc_loop"
        /\ wr.at[t] = None
        /\ ws_clients \subseteq wr.done[t]
        /\ ws_clients' = r.live
        /\ sock' = [c \in Conns |-> IF c \in r.dead THEN "closed" ELSE sock[c]]
        /\ pc' = [pc EXCEPT ![t] = Home(t)]
        /\ payload' = [payload EXCEPT ![t] = None]
        /\ wr' = [wr EXCEPT !.done[t] = {}, !.dead[t] = {}]
        /\ UNCHANGED <<sup, pub, loop, state_lock, ext, heap, wire, upload, State, robot_py, last_broadcast_json,
                       peer, resp, sent, saved, nsets, ncmds, since, tick, last>>

(***************************************************************************)
(* The sends of a frame as two steps each: sendall is entered, sendall      *)
(* returns or raises.  The initial send of _handle_websocket is made        *)
(* without a lock; BcWriteBegin and BcWriteEnd are the two halves of BcSend.*)
(***************************************************************************)
WsSendBegin(c) ==
    /\ pc[c] = "ws_send"
    /\ pc' = [pc EXCEPT ![c] = "ws_sending"]
    /\ wr' = [wr EXCEPT !.at[c] = Some(c)]
    /\ UNCHANGED <<sup, pub, loop, state_lock, ext, heap, wire, upload, State, robot_py, ws_clients,
                   last_broadcast_json, payload, saved, sock, peer, resp, sent, nsets, ncmds,
                   since, tick, last>>

WsSendEnd(c, lost) ==
    /\ pc[c] = "ws_sending"
    /\ peer[c] # "stalled" \/ sock[c] # "open"
    /\ lost \subseteq {d \in {c} : peer[d] # "up"}
    /\ sent' = IF SendFails(c, lost) THEN sent
               ELSE [sent EXCEPT ![c] = Append(@, [src |-> "init",
                                                   data |-> JsonDumps(Val(payload[c]))])]
    /\ payload' = [payload EXCEPT ![c] = None]
    /\ pc' = [pc EXCEPT ![c] = "recv"]
    /\ wr' = [wr EXCEPT !.at[c] = None]
    /\ UNCHANGED <<sup, pub, loop, state_lock, ext, heap, wire, upload, State, robot_py, ws_clients,
                   last_broadcast_json, saved, sock, peer, resp, nsets, ncmds, since, tick,
                   last>>

\* the send loop takes the next socket of the set
BcWriteBegin(t, c) ==
    /\ pc[t] = "bc_loop"
    /\ wr.at[t] = None
    /\ c \in ws_clients \ wr.done[t]
    /\ wr' = [wr EXCEPT !.at[t] = Some(c)]
    /\ UNCHANGED <<sup, pub, loop, state_lock, ext, heap, wire, upload, State, robot_py, ws_clients,
                   last_broadcast_json, pc, payload, saved, sock, peer, resp, sent, nsets,
                   ncmds, since, tick, last>>

\* its sendall returns, or raises and the socket is put in `dead`
BcWriteEnd(t, lost) ==
    /\ pc[t] = "bc_loop"
    /\ wr.at[t] # None
    /\ LET c == Val(wr.at[t]) IN
        /\ peer[c] # "stalled" \/ sock[c] # "open"
        /\ lost \subseteq {d \in {c} : peer[d] # "up"}
        /\ sent' = IF SendFails(c, lost) THEN sent
                   ELSE [sent EXCEPT ![c] = Append(@, [src |-> "bcast",
                                                       data |-> JsonDumps(Val(payload[t]))])]
        /\ wr' = [wr EXCEPT !.at[t] = None,
                            !.done[t] = @ \cup {c},
                            !.dead[t] = IF SendFails(c, lost) THEN @ \cup {c} ELSE @]
    /\ UNCHANGED <<sup, pub, loop, state_lock, ext, heap, wire, upload, State, robot_py, ws_clients,
                   last_broadcast_json, pc, payload, saved, sock, peer, resp, nsets, ncmds,
                   since, tick, last>>

(***************************************************************************)
(* The setters and get_state_snapshot statement by statement.  A setter     *)
(* takes _STATE.lock, assigns its first fields, then assigns the others and  *)
(* leaves.  `_STATE.room_pcts = dict(...)` and `_STATE.score_log = list(...)`*)
(* bind the field to a new object; get_state_snapshot puts the objects the   *)
(* two fields are bound to in the dict it returns.                           *)
(***************************************************************************)
\* field = <a new dict or list with this value>
bind_new(h, field, value) ==
    [h EXCEPT !.val = Append(h.val, value), ![field] = Len(h.val) + 1]

UpdateScoreBegin(in) ==
    /\ ext.pc = "idle"
    /\ StateLockFree
    /\ nsets < MaxCalls
    /\ nsets' = nsets + 1
    /\ ext' = [pc |-> "update_score", in |-> in]
    /\ State' = [State EXCEPT !.points = in[1], !.percent = in[2]]
    /\ UNCHANGED <<wr, sup, pub, loop, state_lock, heap, wire, upload, robot_py, ws_clients, last_broadcast_json, pc, payload,
                   saved, sock, peer, resp, sent, ncmds, since, tick, last>>

UpdateScoreEnd ==
    LET in == ext.in
        S == update_score(State, in[1], in[2], in[3], in[4], in[5])
    IN  /\ ext.pc = "update_score"
        /\ ext' = [pc |-> "idle"]
        /\ State' = S
        /\ heap' = bind_new(heap, "log", S.score_log)
        /\ UNCHANGED <<wr, sup, pub, loop, state_lock, wire, upload, robot_py, ws_clients, last_broadcast_json, pc, payload,
                       saved, sock, peer, resp, sent, nsets, ncmds, since, tick, last>>

SetRoomStatsBegin(in) ==
    LET S == set_room_stats(State, in[1], in[2]) IN
    /\ ext.pc = "idle"
    /\ StateLockFree
    /\ nsets < MaxCalls
    /\ nsets' = nsets + 1
    /\ ext' = [pc |-> "set_room_stats", in |-> in]
    /\ State' = [State EXCEPT !.room_pcts = S.room_pcts]
    /\ heap' = bind_new(heap, "room", S.room_pcts)
    /\ UNCHANGED <<wr, sup, pub, loop, state_lock, wire, upload, robot_py, ws_clients, last_broadcast_json, pc, payload,
                   saved, sock, peer, resp, sent, ncmds, since, tick, last>>

SetRoomStatsEnd ==
    /\ ext.pc = "set_room_stats"
    /\ ext' = [pc |-> "idle"]
    /\ State' = set_room_stats(State, ext.in[1], ext.in[2])
    /\ UNCHANGED <<wr, sup, pub, loop, state_lock, heap, wire, upload, robot_py, ws_clients, last_broadcast_json, pc, payload,
                   saved, sock, peer, resp, sent, nsets, ncmds, since, tick, last>>

\* a thread calls get_state_snapshot and keeps the dict
GetSnapshot ==
    /\ StateLockFree
    /\ Len(heap.held) < MaxCount
    /\ heap' = [heap EXCEPT !.held = Append(@, [snap |-> get_state_snapshot(State),
                                                 room |-> heap.room, log |-> heap.log])]
    /\ UNCHANGED <<wr, sup, pub, loop, state_lock, ext, wire, upload, State, robot_py, ws_clients, last_broadcast_json, pc,
                   payload, saved, sock, peer, resp, sent, nsets, ncmds, since, tick, last>>

(***************************************************************************)
(* _ws_send_text and _ws_recv_frame on the two ends of one connection.      *)
(***************************************************************************)
SendText(n) ==
    /\ IsNone(wire)
    /\ wire' = Some([n |-> n, stream |-> ws_send_text(n)])
    /\ last' = [op |-> "send_text", n |-> n]
    /\ UNCHANGED <<wr, sup, pub, loop, state_lock, ext, heap, State, robot_py, ws_clients, last_broadcast_json, pc, payload, saved,
                   sock, peer, resp, sent, nsets, ncmds, since, tick, upload>>

\* a client writes a frame that declares n payload bytes; whole: the payload
\* follows, otherwise nothing has followed yet
ClientSend(n, whole) ==
    /\ IsNone(wire)
    /\ wire' = Some([n |-> n, stream |-> ws_client_frame(n, IF whole THEN n ELSE 0)])
    /\ last' = [op |-> "send_text", n |-> n]
    /\ UNCHANGED <<wr, sup, pub, loop, state_lock, ext, heap, State, robot_py, ws_clients, last_broadcast_json, pc, payload, saved,
                   sock, peer, resp, sent, nsets, ncmds, since, tick, upload>>

\* a client writes the first k bytes of the header of such a frame and
\* closes: the stream ends inside the header
ClientSendCut(n, k) ==
    LET whole == ws_client_frame(n, 0) IN
    /\ IsNone(wire)
    /\ k < Len(whole.head)
    /\ wire' = Some([n |-> n, stream |-> [head |-> SubSeq(whole.head, 1, k), body |-> 0]])
    /\ last' = [op |-> "send_text", n |-> n]
    /\ UNCHANGED <<wr, sup, pub, loop, state_lock, ext, heap, State, robot_py, ws_clients, last_broadcast_json, pc, payload, saved,
                   sock, peer, resp, sent, nsets, ncmds, since, tick, upload>>

RecvFrame ==
    /\ ~IsNone(wire)
    /\ wire' = None
    /\ last' = [op |-> "recv_frame", n |-> Val(wire).n, stream |-> Val(wire).stream,
                ret |-> ws_recv_bytes(Val(wire).stream),
                read |-> ws_recv_consumed(Val(wire).stream)]
    /\ UNCHANGED <<wr, sup, pub, loop, state_lock, ext, heap, State, robot_py, ws_clients, last_broadcast_json, pc, payload, saved,
                   sock, peer, resp, sent, nsets, ncmds, since, tick, upload>>

\* _ws_recv_frame on a frame that the transport delivers in pieces
RecvFramePieces(cuts) ==
    /\ ~IsNone(wire)
    /\ wire' = None
    /\ last' = [op |-> "recv_pieces", n |-> Val(wire).n, stream |-> Val(wire).stream,
                cuts |-> cuts, ret |-> ws_recv_frame_pieces(Val(wire).stream, cuts)]
    /\ UNCHANGED <<wr, sup, pub, loop, state_lock, ext, heap, State, robot_py, ws_clients, last_broadcast_json, pc, payload, saved,
                   sock, peer, resp, sent, nsets, ncmds, since, tick, upload>>

(***************************************************************************)
(* The control loop of Supervisor.run, statement by statement: a step is at *)
(* most one call of the store (one critical section of _STATE.lock) with    *)
(* the statements of the loop's own thread around it.  The other threads    *)
(* run between the steps.  The clock stops at MaxNow; iterations that do    *)
(* not read it (no run, or a run without a robot) are followed past it.     *)
(***************************************************************************)
ButtonFlags == {"run_requested", "relocate_requested", "end_requested"}

\* the run every entry of the new score log was appended in
LogRuns(old, len, run) ==
    [i \in 1..len |-> IF i <= Len(old) THEN old[i] ELSE run]

\* what a step of the loop leaves alone
LoopFrame ==
    UNCHANGED <<wr, state_lock, ext, heap, wire, upload, robot_py, ws_clients,
                last_broadcast_json, pc, payload, saved, sock, peer, resp, sent, nsets,
                ncmds, tick, last>>

\* step() has returned; consume_new_code_flag (530-531)
LoopStep ==
    LET c == consume_new_code_flag(State) IN
    /\ loop.pc = "step"
    /\ StateLockFree
    /\ sup.now < MaxNow \/ ~Running(sup) \/ ~sup.robot
    /\ State' = c.state
    /\ since' = [since EXCEPT !["new_code_available"] = <<>>]
    /\ sup' = [sup EXCEPT !.now = Min(sup.now + 1, MaxNow)]
    /\ loop' = [loop EXCEPT !.pc = IF Running(sup) THEN "relocate_request" ELSE "run_request"]
    /\ pub' = [pub EXCEPT !.calls = <<>>, !.acted = {},
                          !.left = pub.seen, !.ncmds = pub.at,
                          !.seen = {f \in ButtonFlags : State[f]}, !.at = ncmds]
    /\ LoopFrame

\* no run is on: consume_run_request, and reset if it was set (534-536); the
\* conditions of 539 and 543 are false without a call and 553 continues
LoopRunRequest(found) ==
    LET r == consume_run_request(State) IN
    /\ loop.pc = "run_request"
    /\ StateLockFree
    /\ State' = r.state
    /\ since' = [since EXCEPT !["run_requested"] = <<>>]
    /\ IF r.ret
       THEN /\ sup' = reset(sup, found)
            /\ pub' = [pub EXCEPT !.run = pub.run + 1, !.n = 0, !.runs = <<>>,
                                  !.acted = {"run"}, !.ended = "none",
                                  !.seen = pub.seen \ {"run_requested"}]
       ELSE /\ found
            /\ sup' = sup
            /\ pub' = [pub EXCEPT !.seen = pub.seen \ {"run_requested"}]
    /\ loop' = LoopInit
    /\ LoopFrame

\* a run is on: consume_relocate_request, and _relocate_robot if it was set
\* (539-540)
LoopRelocateRequest ==
    LET r == consume_relocate_request(State)
        s1 == IF r.ret THEN relocate_robot(sup) ELSE sup
    IN  /\ loop.pc = "relocate_request"
        /\ StateLockFree
        /\ State' = r.state
        /\ since' = [since EXCEPT !["relocate_requested"] = <<>>]
        /\ sup' = s1
        /\ pub' = [pub EXCEPT !.acted = IF s1 # sup THEN pub.acted \cup {"relocate"}
                                        ELSE pub.acted,
                              !.runs = LogRuns(pub.runs, Len(s1.score_log), pub.run),
                              !.seen = pub.seen \ {"relocate_requested"}]
        /\ loop' = [loop EXCEPT !.pc = "end_request"]
        /\ LoopFrame

\* consume_end_request; if it was set the score is computed and the robot
\* removed (543-549); otherwise line 553 continues when there is no robot
LoopEndRequest ==
    LET r == consume_end_request(State) IN
    /\ loop.pc = "end_request"
    /\ StateLockFree
    /\ State' = r.state
    /\ since' = [since EXCEPT !["end_requested"] = <<>>]
    /\ IF r.ret
       THEN /\ sup' = remove_robot(sup)
            /\ pub' = [pub EXCEPT !.acted = pub.acted \cup {"end"}, !.ended = "end",
                                  !.seen = pub.seen \ {"end_requested"}]
            /\ loop' = [loop EXCEPT !.pc = "end_battery"]
       ELSE /\ sup' = sup
            /\ pub' = [pub EXCEPT !.seen = pub.seen \ {"end_requested"}]
            /\ loop' = IF sup.robot THEN [loop EXCEPT !.pc = "body"] ELSE LoopInit
    /\ LoopFrame

\* set_battery(None) of the End button (550)
LoopEndBattery ==
    /\ loop.pc = "end_battery"
    /\ StateLockFree
    /\ State' = set_battery(State, None)
    /\ loop' = [loop EXCEPT !.pc = "end_score"]
    /\ UNCHANGED <<sup, pub, since>>
    /\ LoopFrame

\* an update_score call of the loop and what is remembered of it
Publish(call) ==
    /\ StateLockFree
    /\ State' = update_score(State, call.points, call.percent, call.remaining,
                             call.game_over, Some(call.log))
    /\ pub' = [pub EXCEPT !.calls = Append(pub.calls, call), !.n = pub.n + 1,
                          !.shown = pub.runs]

\* update_score of the End button (551); line 553 continues
LoopEndScore ==
    /\ loop.pc = "end_score"
    /\ Publish(end_call(sup))
    /\ loop' = LoopInit
    /\ UNCHANGED <<sup, since>>
    /\ LoopFrame

\* the run is on and the robot is there: the clock and the position are
\* read, the team name is stored (556-564), the grid, the time, the battery
\* or the boost pad are updated and the run is ended when its time is up
\* (567-579); line 582 decides whether _update_data is called
LoopBody(in) ==
    LET b == run_body(sup, in) IN
    /\ loop.pc = "body"
    /\ ~IsNone(in.team) => StateLockFree
    /\ State' = IF IsNone(in.team) THEN State ELSE set_team_name(State, in.team)
    /\ sup' = b.sup
    /\ pub' = [pub EXCEPT !.runs = LogRuns(pub.runs, Len(b.sup.score_log), pub.run),
                          !.ended = IF b.ended # "none" THEN b.ended ELSE pub.ended]
    /\ loop' = IF b.publish
               THEN [pc |-> IF HasRooms(b.sup) THEN "room_stats" ELSE "battery",
                     remaining |-> b.remaining,
                     current_room |-> b.rooms.current_room,
                     room_pcts |-> b.rooms.room_pcts]
               ELSE LoopInit
    /\ UNCHANGED since
    /\ LoopFrame

\* _update_data: set_room_stats (413-414)
LoopRoomStats ==
    /\ loop.pc = "room_stats"
    /\ StateLockFree
    /\ State' = set_room_stats(State, Some(loop.room_pcts), Some(loop.current_room))
    /\ loop' = [loop EXCEPT !.pc = "battery"]
    /\ UNCHANGED <<sup, pub, since>>
    /\ LoopFrame

\* _update_data: set_battery (464)
LoopBattery ==
    /\ loop.pc = "battery"
    /\ StateLockFree
    /\ State' = set_battery(State, IF sup.subleague = "U19" THEN Some(sup.battery_level)
                                   ELSE None)
    /\ loop' = [loop EXCEPT !.pc = "score"]
    /\ UNCHANGED <<sup, pub, since>>
    /\ LoopFrame

\* _update_data: update_score (434-436, 465), then last_update_time = now (584)
LoopScore ==
    /\ loop.pc = "score"
    /\ Publish(update_data_call(sup, loop.remaining))
    /\ sup' = [sup EXCEPT !.last_update_time = sup.now]
    /\ loop' = LoopInit
    /\ UNCHANGED since
    /\ LoopFrame

\* a step of the loop, with the inputs of `inputs` for its body
LoopNext(inputs) ==
    \/ LoopStep
    \/ \E found \in BOOLEAN : LoopRunRequest(found)
    \/ LoopRelocateRequest
    \/ LoopEndRequest
    \/ LoopEndBattery
    \/ LoopEndScore
    \/ \E in \in inputs : LoopBody(in)
    \/ LoopRoomStats
    \/ LoopBattery
    \/ LoopScore

(***************************************************************************)
(* Inputs.                                                                  *)
(***************************************************************************)
\* an upload whose text frame has n characters
UploadOfChars(n) == Upload(B64(n - 32, 0, 0, TRUE), JAbsent)
\* and one of n characters of which one is not ASCII: n + 1 bytes
UploadOfCharsNotAscii(n) == Upload(B64(n - 33, 0, 0, FALSE), JAbsent)

\* payload lengths of the three header forms, and the ways a frame is split
PieceLengths == {0, 5, 125, 126, 5000, 65536}
Cuttings == {cuts \in SUBSET (1..CutRange) : Cardinality(cuts) <= MaxCuts}

\* the lengths inbound frames declare
DeclaredLengths ==
    {1, 125, 126, 65535, 65536} \cup ((FrameLimit - 1)..(FrameLimit + 2))

\* payload lengths around the three forms of the length field and the limit
PayloadLengths ==
    (0..130) \cup (65530..65540) \cup ((FrameLimit - 2)..(FrameLimit + 2))

\* update_score(points, percent, remaining_seconds, game_over, score_log)
ScoreInputs ==
    { <<1240, 37, 120, FALSE, Some(<<[source |-> "boost", points |-> 100]>>)>>,
      <<1000, 0, -1, TRUE, None>> }
TeamNames == {Some(" Team A "), None}
Batteries == {Some(50), None}
\* set_room_stats(room_pcts, current_room): the dict's items as inserted
RoomStats == { <<Some(<< <<1, 5>>, <<0, 25>> >>), Some(0)>>, <<None, None>> }
Subleagues == {Some(" U19 "), Some("U14")}

\* update_score and set_room_stats calls that differ in every field
ScoreCalls ==
    ScoreInputs \cup { <<1300, 40, 110, FALSE,
                         Some(<<[source |-> "boost", points |-> 100],
                                [source |-> "relocate", points |-> -50]>>)>> }
RoomCalls == RoomStats \cup { <<Some(<< <<0, 30>>, <<1, 5>> >>), Some(1)>> }

\* the upgrade request of a dashboard client
WsRequest == Some(Request("GET", "/ws", Some("websocket"), Some("dGhlIHNhbXBsZSBub25jZQ==")))


\* "QUJD" (3 bytes) as dir/a.py; "QUI=" (2 bytes) without a file name
UploadA == Upload(B64(4, 0, 0, TRUE), JPath(<<"dir", "a.py">>))
UploadDefault == Upload(B64(3, 1, 0, TRUE), JAbsent)
\* "QUJDR": one character more than a multiple of 4, b64decode raises
UploadBad == Upload(B64(5, 0, 0, TRUE), JPath(<<"a.py">>))
\* "QUJD" with a file name that is a text without a '/'
UploadNamed == Upload(B64(4, 0, 0, TRUE), JStr("dance"))
\* "QUJD" with the number 0 as its file name
UploadZero == Upload(B64(4, 0, 0, TRUE), JZero)
CloseFrame == Frame(8, Raw(0))

\* the base64 text of n bytes, as the dashboard page encodes a file
B64Encode(n) == B64(4 * (n \div 3) + (IF (n % 3) = 0 THEN 0 ELSE (n % 3) + 1),
                    (3 - (n % 3)) % 3, 0, TRUE)
UploadOfSize(n) == Upload(B64Encode(n), JAbsent)
\* the largest upload whose frame _ws_recv_frame takes: a text of FrameLimit
\* characters, 32 of them around the content
LargestFrameBytes == 3 * ((FrameLimit - 32) \div 4)
UploadSizes == {3, LargestFrameBytes, LargestFrameBytes + 3, UploadLimit, UploadLimit + 1}
FsConditions == {FsOk, FsOpenFails, FsMkdirFails, FsLimit(0), FsLimit(2)}

\* text frames that are no well-formed command
MalformedFrames ==
    { Frame(1, BadUtf8), Frame(1, BadJson),
      Frame(1, Json(JArray)), Frame(1, Json(JNumber)), Frame(1, Json(JNull)),
      Frame(1, Json(JStr("run"))),
      Frame(1, Json(JObject(JAbsent, JAbsent, JAbsent))),
      Frame(1, Json(JObject(JStr("dance"), JAbsent, JAbsent))),
      Frame(1, Json(JObject(JNumber, JAbsent, JAbsent))),
      Frame(1, Json(JObject(JStr("upload"), JNumber, JAbsent))),
      Frame(1, Json(JObject(JStr("upload"), JAbsent, JPath(<<"a.py">>)))),
      Upload(B64(4, 0, 0, TRUE), JNumber), UploadZero }

\* first requests of a connection
Requests ==
    { Request(m, t, u, k) :
        m \in {"GET", "get", "POST"},
        t \in {"/", "/index.html", "/ws", "/ws?x=1", "/other"},
        u \in {None, Some("websocket"), Some("WebSocket"), Some("h2c")},
        k \in {None, Some("dGhlIHNhbXBsZSBub25jZQ==")} }

\* first bytes of a connection: complete or cut short, small or over the
\* limit, with a request line of 0 to 3 tokens
RawRequests ==
    { RawRequest(eof, size, tokens, req) :
        eof \in BOOLEAN,
        size \in {18, HeaderLimit, HeaderLimit + 1},
        tokens \in 0..3,
        req \in { Request("GET", "/", None, None),
                  Request("POST", "/", None, None),
                  Request("DELETE", "/index.html", None, None),
                  Request("GET", "/ws", Some("websocket"),
                          Some("dGhlIHNhbXBsZSBub25jZQ==")) } }

(***************************************************************************)
(* Specifications.                                                          *)
(***************************************************************************)
Session(c, frames) ==
    \/ Connect(c, WsRequest, TRUE, TRUE)
    \/ WsAdd(c)
    \/ WsSnapshot(c)
    \/ \E lost \in SUBSET {c} : WsSend(c, lost)
    \/ \E fr \in frames : WsRecv(c, fr)

\* the steps of _apply_upload that follow an upload frame: the file is
\* opened and written under the file system's condition fs, then the store
\* is updated
UploadSteps(c, fss) ==
    \/ \E fs \in fss : UploadOpen(c, fs)
    \/ \E fs \in fss : UploadWrite(c, fs)
    \/ UploadCommit(c)

\* the ways a session ends
SessionEnd(c) ==
    \/ WsRecvNone(c)
    \/ WsDiscard(c)
    \/ WsClose(c)

Broadcast(t) ==
    \/ BcSnapshot(t)
    \/ BcCompare(t)
    \/ BcEnter(t)
    \/ \E c \in Conns, lost \in SUBSET Conns : BcSend(t, c, lost)
    \/ BcLeave(t)

\* one client that uploads, the broadcaster, the external loop's update_score
Next ==
    \/ Session(1, {UploadA, UploadBad})
    \/ UploadSteps(1, {FsOk})
    \/ \E t \in {0, 1} : Broadcast(t)
    \/ \E in \in {i \in ScoreInputs : i[1] = 1240} : ExtUpdateScore(in)

Spec == Init /\ [][Next]_vars

\* the clients of L are already in their frame loops: they have been
\* registered and sent their initial snapshots before anything else happened
Listening(L) ==
    /\ State = SharedStateInit
    /\ robot_py = None
    /\ ws_clients = L
    /\ last_broadcast_json = None
    /\ pc = [t \in Threads |-> IF t = 0 THEN "sleep" ELSE IF t \in L THEN "recv" ELSE "idle"]
    /\ payload = [t \in Threads |-> None]
    /\ saved = [c \in Conns |-> None]
    /\ sock = [c \in Conns |-> IF c \in L THEN "open" ELSE "none"]
    /\ peer = [c \in Conns |-> IF c \in L THEN "up" ELSE "none"]
    /\ resp = [c \in Conns |-> IF c \in L THEN handle_connection(WsRequest, TRUE, TRUE).resp
                                     ELSE None]
    /\ sent = [c \in Conns |->
                 IF c \in L
                 THEN <<[src |-> "init",
                         data |-> JsonDumps(get_state_snapshot(SharedStateInit))]>>
                 ELSE <<>>]
    /\ nsets = 0
    /\ ncmds = 0
    /\ since = [f \in FlagNames |-> <<>>]
    /\ tick = TickInit
    /\ last = [op |-> "init"]
    /\ upload = [c \in Conns |-> None]
    /\ wire = None
    /\ ext = [pc |-> "idle"]
    /\ heap = HeapInit
    /\ sup = SupervisorInit("U19")
    /\ pub = PubInit
    /\ loop = LoopInit
    /\ state_lock = None
    /\ wr = WrInit

\* the same as Init with a second client that is already in its frame loop
InitListening == Listening({2})

\* client 1 connects and uploads, the broadcaster ticks, the external loop
\* reports one score
NextListen ==
    \/ Session(1, {UploadA})
    \/ UploadSteps(1, {FsOk})
    \/ \E t \in {0, 1} : Broadcast(t)
    \/ \E in \in {i \in ScoreInputs : i[1] = 1240} : ExtUpdateScore(in)

SpecListen == InitListening /\ [][NextListen]_vars

\* the command flags: two clients send commands, the external loop consumes
NextFlags ==
    \/ \E c \in Conns : Session(c, {Cmd("run"), Cmd("relocate"), Cmd("end"), UploadA})
    \/ \E c \in Conns : UploadSteps(c, {FsOk})
    \/ \E c \in Conns : Broadcast(c)
    \/ \E f \in FlagNames : ExtConsume(f)

SpecFlags == Init /\ [][NextFlags]_vars

\* uploads of the sizes at the limits, through a session and on their own
NextUpload ==
    \/ Session(1, {UploadOfSize(n) : n \in UploadSizes} \cup {UploadA, UploadZero, UploadNamed})
    \/ UploadSteps(1, FsConditions)
    \/ WsDiscard(1)
    \/ WsClose(1)
    \/ Broadcast(1)
    \/ \E n \in UploadSizes, name \in {JAbsent, JPath(<<"dir", "a.py">>), JStr("dance")} :
          CallApplyUpload(2, B64Encode(n), name)
    \/ \E fs \in FsConditions : CallApplyUploadOpen(2, fs)
    \/ \E fs \in FsConditions : CallApplyUploadWrite(2, fs)
    \/ CallApplyUploadCommit(2)

SpecUpload == Init /\ [][NextUpload]_vars

\* sessions that are sent malformed frames, commands, and that drop
NextSession ==
    \/ \E c \in Conns : Session(c, MalformedFrames \cup {Cmd("run"), CloseFrame})
    \/ \E c \in Conns : UploadSteps(c, {FsOk})
    \/ \E c \in Conns : SessionEnd(c)
    \/ \E c \in Conns : PeerGone(c)

SpecSession == Init /\ [][NextSession]_vars

\* connections with any first request, a document that can be read or not, a
\* client that takes the response or is gone
NextDispatch ==
    \/ \E c \in Conns, req \in Requests, readable \in BOOLEAN, sendok \in BOOLEAN :
          Connect(c, Some(req), readable, sendok)
    \/ \E c \in Conns : \/ WsAdd(c)
                         \/ WsSnapshot(c)
                         \/ \E lost \in SUBSET {c} : WsSend(c, lost)

SpecDispatch == Init /\ [][NextDispatch]_vars

\* a client that stops reading, another client that connects and leaves, the
\* broadcaster
NextLocks ==
    \/ Session(1, {CloseFrame})
    \/ Session(2, {CloseFrame})
    \/ \E c \in Conns : WsDiscard(c) \/ WsClose(c)
    \/ PeerStalls(1)
    \/ Broadcast(0)
    \/ \E in \in ScoreInputs : ExtUpdateScore(in)

SpecLocks == Init /\ [][NextLocks]_vars

\* the external loop's calls while a client has stopped reading, the broadcast
\* send loop holds its lock and an upload is being written
\* both clients are in their frame loops from the start; client 2 may stop
\* reading; client 1 uploads while the external loop reports one score; a
\* thread that enters a `with _STATE.lock:` block can be held up inside it
NextStore ==
    \/ PeerStalls(2)
    \/ \E t \in {0, 1} : StateLockAcquire(t)
    \/ UploadBegin(1, UploadA)
    \/ UploadOpen(1, FsOk)
    \/ UploadWrite(1, FsOk)
    \/ UploadCommit(1)
    \/ \E t \in {0, 1} : Broadcast(t)
    \/ \E in \in {i \in ScoreInputs : i[1] = 1240} : ExtUpdateScore(in)
    \/ ExtConsume("new_code_available")

SpecStore == Listening(Conns) /\ [][NextStore]_vars

\* client 2 listens; everything that can go wrong happens to client 1: a
\* JSON array (an exception leaves the loop), a frame over the size limit, a
\* text that is no JSON, a peer that is gone while frames are read or sent,
\* also during an upload and its broadcast
FaultFrames ==
    { Frame(1, Json(JArray)), UploadOfSize(LargestFrameBytes + 3), Frame(1, BadJson), UploadA }

NextFaults ==
    \/ Session(1, FaultFrames)
    \/ UploadSteps(1, {FsOk})
    \/ SessionEnd(1)
    \/ PeerGone(1)
    \/ \E t \in {0, 1} : Broadcast(t)
    \/ \E in \in {i \in ScoreInputs : i[1] = 1240} : ExtUpdateScore(in)

SpecFaults == InitListening /\ [][NextFaults]_vars

\* two clients that can be gone at any moment while the score changes and is
\* broadcast; a send of a broadcast to a client that is gone raises, or
\* returns with the bytes lost
NextDead ==
    \/ Connect(1, WsRequest, TRUE, TRUE)
    \/ WsAdd(1)
    \/ WsSnapshot(1)
    \/ \E lost \in SUBSET {1} : WsSend(1, lost)
    \/ \E c \in Conns : SessionEnd(c)
    \/ \E c \in Conns : PeerGone(c)
    \/ BcSnapshot(0)
    \/ BcCompare(0)
    \/ BcEnter(0)
    \/ \E c \in Conns, lost \in SUBSET Conns : BcSend(0, c, lost)
    \/ BcLeave(0)
    \/ \E in \in {i \in ScoreInputs : i[1] = 1240} : ExtUpdateScore(in)

SpecDead == InitListening /\ [][NextDead]_vars

\* sessions that end in every way: a close frame, a frame over the limit, an
\* exception in the command handling, a peer that is gone, a failed broadcast
LifeFrames ==
    { CloseFrame, UploadOfSize(LargestFrameBytes + 3), Frame(1, Json(JArray)), Cmd("run") }

NextLife ==
    \/ \E req \in {WsRequest, Some(Request("GET", "/", None, None))}, sendok \in BOOLEAN :
          Connect(1, req, TRUE, sendok)
    \/ WsAdd(1)
    \/ WsSnapshot(1)
    \/ \E lost \in SUBSET {1} : WsSend(1, lost)
    \/ \E fr \in LifeFrames : WsRecv(1, fr)
    \/ \E c \in Conns : SessionEnd(c)
    \/ \E c \in Conns : PeerGone(c)
    \/ Broadcast(0)
    \/ \E in \in {i \in ScoreInputs : i[1] = 1240} : ExtUpdateScore(in)

SpecLife == InitListening /\ [][NextLife]_vars

\* setter calls, uploads and get_state_snapshot calls from other threads
NextSnapshot ==
    \/ \E in \in ScoreCalls : UpdateScoreBegin(in)
    \/ UpdateScoreEnd
    \/ \E in \in RoomCalls : SetRoomStatsBegin(in)
    \/ SetRoomStatsEnd
    \/ GetSnapshot
    \/ CallApplyUpload(2, B64Encode(3), JPath(<<"dir", "a.py">>))
    \/ CallApplyUploadOpen(2, FsOk)
    \/ CallApplyUploadWrite(2, FsOk)
    \/ CallApplyUploadCommit(2)

SpecSnapshot == Init /\ [][NextSnapshot]_vars

\* every writer of the store: the commands of a session, the consume calls,
\* the five setters, next to the broadcasts
NextOwner ==
    \/ Session(1, {Cmd("run"), Cmd("relocate"), Cmd("end"), UploadA, UploadBad})
    \/ UploadSteps(1, {FsOk, FsLimit(2)})
    \/ Broadcast(1)
    \/ \E f \in FlagNames : ExtConsume(f)
    \/ \E in \in ScoreInputs : ExtUpdateScore(in)
    \/ \E name \in TeamNames : ExtSetTeamName(name)
    \/ \E b \in Batteries : ExtSetBattery(b)
    \/ \E in \in RoomStats : ExtSetRoomStats(in)
    \/ \E sl \in Subleagues : ExtSetSubleague(sl)

SpecOwner == Init /\ [][NextOwner]_vars

\* frames written by _ws_send_text and read back by _ws_recv_frame
NextFrames ==
    \/ \E n \in PayloadLengths : SendText(n)
    \/ RecvFrame

SpecFrames == Init /\ [][NextFrames]_vars

\* a session that is sent frames at the size limit and over it, and frames
\* with such declared lengths given to _ws_recv_frame
NextLimit ==
    \/ Session(1, {UploadOfChars(FrameLimit), UploadOfChars(FrameLimit + 1),
                   UploadOfCharsNotAscii(FrameLimit),
                   UploadOfSize(LargestFrameBytes + 3), Cmd("run")})
    \/ UploadSteps(1, {FsOk})
    \/ WsDiscard(1)
    \/ WsClose(1)
    \/ Broadcast(1)
    \/ \E n \in DeclaredLengths, whole \in BOOLEAN : ClientSend(n, whole)
    \/ \E n \in DeclaredLengths, k \in 1..CutRange : ClientSendCut(n, k)
    \/ RecvFrame

SpecLimit == Init /\ [][NextLimit]_vars

\* whole client frames read by _ws_recv_frame from a transport that splits
\* them
NextPieces ==
    \/ \E n \in PieceLengths : ClientSend(n, TRUE)
    \/ \E cuts \in Cuttings : RecvFramePieces(cuts)

SpecPieces == Init /\ [][NextPieces]_vars

\* a session that is sent frames of every opcode: commands, an upload, a
\* close frame, binary, ping, pong and continuation frames, an empty text
\* frame, a JSON array, a frame over the size limit
DispatchFrames ==
    { Cmd("run"), Cmd("end"), UploadA, CloseFrame,
      Frame(2, Raw(3)), Frame(9, Raw(0)), Frame(10, Raw(2)), Frame(0, Raw(3)),
      Frame(1, Raw(0)), Frame(1, Json(JArray)), UploadOfSize(LargestFrameBytes + 3) }

NextFrameLoop ==
    \/ Session(1, DispatchFrames)
    \/ UploadSteps(1, {FsOk})
    \/ SessionEnd(1)
    \/ PeerGone(1)
    \/ Broadcast(1)

SpecFrameLoop == Init /\ [][NextFrameLoop]_vars

\* the control loop and a dashboard client that presses the buttons
LoopInputs ==
    [ix : 0..(GridCells + 1), on_pad : BOOLEAN, team : {None, Some("Team A")}]

InitLoop ==
    \E sl \in {"U19", "U14"} :
        /\ State = set_subleague(SharedStateInit, Some(sl))
        /\ robot_py = None
        /\ ws_clients = {2}
        /\ last_broadcast_json = None
        /\ pc = [t \in Threads |-> IF t = 0 THEN "sleep" ELSE IF t = 2 THEN "recv" ELSE "idle"]
        /\ payload = [t \in Threads |-> None]
        /\ saved = [c \in Conns |-> None]
        /\ sock = [c \in Conns |-> IF c = 2 THEN "open" ELSE "none"]
        /\ peer = [c \in Conns |-> IF c = 2 THEN "up" ELSE "none"]
        /\ resp = [c \in Conns |-> IF c = 2 THEN handle_connection(WsRequest, TRUE, TRUE).resp
                                         ELSE None]
        /\ sent = [c \in Conns |->
                     IF c = 2
                     THEN <<[src |-> "init",
                             data |-> JsonDumps(get_state_snapshot(
                                          set_subleague(SharedStateInit, Some(sl))))]>>
                     ELSE <<>>]
        /\ nsets = 0
        /\ ncmds = 0
        /\ since = [f \in FlagNames |-> <<>>]
        /\ tick = TickInit
        /\ last = [op |-> "init"]
        /\ upload = [c \in Conns |-> None]
        /\ wire = None
        /\ ext = [pc |-> "idle"]
        /\ heap = HeapInit
        /\ sup = SupervisorInit(sl)
        /\ pub = PubInit
        /\ loop = LoopInit
        /\ state_lock = None
        /\ wr = WrInit

NextLoop ==
    \/ \E fr \in {Cmd("run"), Cmd("relocate"), Cmd("end")} : WsRecv(2, fr)
    \/ LoopNext(LoopInputs)

SpecLoop == InitLoop /\ [][NextLoop]_vars

\* the loop with the run and end buttons and a robot that stays in column 1,
\* on a pad or not; the simulation keeps stepping, so the loop goes on
EndInputs == [ix : {1}, on_pad : BOOLEAN, team : {Some("Team A")}]

NextLoopEnd ==
    \/ \E fr \in {Cmd("run"), Cmd("end")} : WsRecv(2, fr)
    \/ LoopNext(EndInputs)

SpecLoopFair ==
    InitLoop /\ [][NextLoopEnd]_vars /\ WF_vars(LoopNext(EndInputs))

\* handshakes with the keys of HandshakeKeys, and the sessions they open
NextHandshake ==
    \/ \E c \in Conns, key \in HandshakeKeys, u \in {"websocket", "WebSocket"},
          sendok \in BOOLEAN :
          Connect(c, Some(Request("GET", "/ws", Some(u), Some(key))), TRUE, sendok)
    \/ \E c \in Conns : \/ WsAdd(c)
                         \/ WsSnapshot(c)
                         \/ \E lost \in SUBSET {c} : WsSend(c, lost)
                         \/ \E fr \in {Cmd("run"), Cmd("end")} : WsRecv(c, fr)

SpecHandshake == Init /\ [][NextHandshake]_vars

\* the sends frame by frame: a client that connects, a client that uploads,
\* the broadcaster
NextWriters ==
    \/ Connect(1, WsRequest, TRUE, TRUE)
    \/ WsAdd(1)
    \/ WsSnapshot(1)
    \/ WsSendBegin(1)
    \/ \E lost \in SUBSET {1} : WsSendEnd(1, lost)
    \/ WsRecv(2, UploadA)
    \/ UploadSteps(2, {FsOk})
    \/ \E t \in {0, 2} : \/ BcSnapshot(t)
                          \/ BcCompare(t)
                          \/ BcEnter(t)
                          \/ \E c \in Conns : BcWriteBegin(t, c)
                          \/ \E lost \in SUBSET Conns : BcWriteEnd(t, lost)
                          \/ BcLeave(t)

SpecWriters == InitListening /\ [][NextWriters]_vars

\* connections whose first bytes are read by _read_headers
NextRequest ==
    \/ \E c \in Conns, raw \in RawRequests, readable \in BOOLEAN, sendok \in BOOLEAN :
          Connect(c, read_headers(raw), readable, sendok)
    \/ \E c \in Conns : \/ WsAdd(c)
                         \/ WsSnapshot(c)
                         \/ \E lost \in SUBSET {c} : WsSend(c, lost)

SpecRequest == Init /\ [][NextRequest]_vars

(***************************************************************************)
(* Properties of the command flags (SpecFlags).                             *)
(***************************************************************************)

\* C1: edge-triggered flags.  For each of the four flags, a consume call
\* returns true exactly when at least one command of that kind was processed
\* since the previous consume call of that flag (any number k >= 1 of them
\* gives one true), so a call that follows a consume with no command in
\* between returns false.
EdgeTriggeredFlags ==
    last.op = "consume" => (last.ret <=> Len(last.k) >= 1)

\* two commands of one kind were processed before the consume that returned true
EdgeTriggeredFlagsWitness ==
    /\ last.op = "consume"
    /\ Len(last.k) = 2
    /\ last.ret

\* C2: concurrent writers of `relocate`.  In every interleaving of the handler
\* threads and the consumer, relocate_requested is set exactly when a relocate
\* command was processed since the last consume_relocate_request, and that
\* call returns true exactly when it was: no completed write is lost, none is
\* seen twice.
ConcurrentRelocateWriters ==
    /\ State.relocate_requested <=> since["relocate_requested"] # <<>>
    /\ (last.op = "consume" /\ last.flag = "relocate_requested")
          => (last.ret <=> last.k # <<>>)

\* every handler thread wrote the flag before one consume call, which returned
\* true and left the flag clear
ConcurrentRelocateWritersWitness ==
    /\ last.op = "consume"
    /\ last.flag = "relocate_requested"
    /\ {last.k[i] : i \in 1..Len(last.k)} = Conns
    /\ last.ret
    /\ ~State.relocate_requested

(***************************************************************************)
(* Properties of the broadcasts                                             *)
(***************************************************************************)
\* the steps of a _broadcast_state call of thread t
Compares(t) == pc[t] = "bc_compare" /\ pc'[t] # "bc_compare"
\* inside the send loop, thread t makes its send to client c; it leaves the
\* loop
SendsTo(t, c) == pc[t] = "bc_loop" /\ c \notin wr.done[t] /\ c \in wr'.done[t]
Sends(t) == \E c \in Conns : SendsTo(t, c)
Leaves(t) == pc[t] = "bc_loop" /\ pc'[t] # "bc_loop"

\* message m is a snapshot message with every field of snapshot p
Carries(m, p) == \A k \in DOMAIN p : JsonField(m.data, k) = p[k]

\* the send loop of thread t sends one message with its snapshot to every
\* client that stays in the live set, and nothing to the others: it starts
\* with no client sent to; a pass sends to one client of the set not yet sent
\* to, one message with the snapshot, or fails and marks the client dead; the
\* loop is left when the whole set has been sent to, and the clients that are
\* not marked dead stay
OneToEveryLiveClient(t) ==
    /\ pc[t] # "bc_loop" => wr.done[t] = {} /\ wr.dead[t] = {}
    /\ (pc[t] = "bc_loop" /\ ~Leaves(t)) =>
          \/ wr'.done[t] = wr.done[t] /\ wr'.dead[t] = wr.dead[t]
          \/ \E c \in ws_clients \ wr.done[t] :
                /\ wr'.done[t] = wr.done[t] \cup {c}
                /\ \A d \in Conns \ {c} : sent'[d] = sent[d]
                /\ \/ /\ wr'.dead[t] = wr.dead[t]
                      /\ Len(sent'[c]) = Len(sent[c]) + 1
                      /\ SubSeq(sent'[c], 1, Len(sent[c])) = sent[c]
                      /\ Carries(sent'[c][Len(sent'[c])], Val(payload[t]))
                   \/ /\ wr'.dead[t] = wr.dead[t] \cup {c}
                      /\ sent'[c] = sent[c]
    /\ Leaves(t) =>
          /\ ws_clients \subseteq wr.done[t]
          /\ ws_clients' = ws_clients \ wr.dead[t]
          /\ sent' = sent

\* C3: change-suppressed broadcast.  After a broadcaster tick, the next tick
\* sends nothing when its snapshot equals the previous tick's, and when it
\* differs sends exactly one message, carrying the new snapshot, to every live
\* client.
TickSendsIffChanged ==
    [][ /\ (Compares(0) /\ ~IsNone(tick.prev)) =>
              /\ (pc'[0] = "bc_send") <=> (tick.cur # tick.prev)
              /\ sent' = sent
        /\ OneToEveryLiveClient(0) ]_vars

\* C4 as stated: the first message a client is sent is its own session's
\* initial snapshot; no broadcast reaches it before.
InitialSnapshotFirst ==
    \A c \in Conns : sent[c] # <<>> => sent[c][1].src = "init"

\* C5: per-client send discipline.  Every message sent to a client after its
\* initial snapshot differs in content from the message sent to it just
\* before.
NoRepeatedMessage ==
    \A c \in Conns :
        (sent[c] # <<>> /\ sent[c][1].src = "init") =>
            \A i \in 2..Len(sent[c]) : sent[c][i].data # sent[c][i - 1].data

\* an upload command with valid base64 content within the size limit
IsUploadFrame(frame) ==
    /\ frame.opcode = 1
    /\ frame.body.k = "json"
    /\ frame.body.v.t = "object"
    /\ ActionIs(frame.body.v, "upload")
    /\ frame.body.v.content.t = "b64"
ValidUpload(frame) ==
    /\ IsUploadFrame(frame)
    /\ ~IsNone(b64decode(frame.body.v.content.b))
    /\ Val(b64decode(frame.body.v.content.b)) <= UploadLimit
\* the name the upload is to be known by
UploadName(frame) ==
    CASE frame.body.v.filename.t = "path" ->
             frame.body.v.filename.p[Len(frame.body.v.filename.p)]
      [] frame.body.v.filename.t = "str" /\ frame.body.v.filename.s # "" ->
             frame.body.v.filename.s
      [] OTHER -> "robot.py"

\* handler thread c takes a frame
Receives(c) == pc[c] = "recv" /\ last'.op = "recv" /\ last'.c = c /\ ncmds' = ncmds + 1
\* handler thread c has written the file of an upload and sets the store's
\* fields (the `with _STATE.lock:` block of _apply_upload); the frame it is
\* carrying out
Commits(c) == pc[c] = "upload_commit" /\ pc'[c] = "bc_snapshot"
UploadFrame(c) == Val(upload[c]).frame
\* handler thread c takes a step at the file of an upload (open, or write
\* and close)
Written(c) == pc[c] \in {"upload_open", "upload_write"} /\ pc'[c] # pc[c]
\* handler thread c goes back to reading frames after its _broadcast_state call
MovesOn(c) == pc[c] \in {"bc_compare", "bc_loop"} /\ pc'[c] = "recv"

\* C6 as stated: a valid upload sets lastUploadFilename and the new-code flag
\* and calls for a broadcast, and when the handler moves on to the next frame
\* every live client has been sent a snapshot carrying the new file name.
UploadReachesClients ==
    [][ \A c \in Conns :
          /\ (Receives(c) /\ ValidUpload(last'.frame)) => pc'[c] = "upload_open"
          /\ (Commits(c) /\ ValidUpload(UploadFrame(c))) =>
                /\ State'.last_upload_filename = Some(UploadName(UploadFrame(c)))
                /\ State'.new_code_available
                /\ pc'[c] = "bc_snapshot"
          /\ (MovesOn(c) /\ ~IsNone(saved[c])) =>
                \A d \in ws_clients' :
                    \E i \in 1..Len(sent'[d]) :
                        JsonField(sent'[d][i].data, "lastUploadFilename") = saved[c] ]_vars

\* C7 as stated: an upload whose content does not decode (or is too large, or
\* cannot be written) changes nothing in the store, sends nothing to any
\* client and leaves the connection open.
RejectedUploadIsSilent ==
    [][ \A c \in Conns :
          /\ (Receives(c) /\ IsUploadFrame(last'.frame) /\ ~ValidUpload(last'.frame)) =>
                /\ State' = State
                /\ sent' = sent
                /\ sock'[c] = "open"
                /\ ws_clients' = ws_clients
          /\ (Sends(c) /\ IsNone(saved[c])) => sent' = sent ]_vars

(***************************************************************************)
(* Properties of uploads, frames and requests                               *)
(***************************************************************************)
\* the decoded size of an upload's content, None when it does not decode
DecodedSize(frame) == b64decode(frame.body.v.content.b)
HasSize(frame, n) == IsUploadFrame(frame) /\ DecodedSize(frame) = Some(n)

\* an upload is taken: by a handler thread from a frame, or by a call of
\* _apply_upload on its own
UploadArrives == last'.op = "recv" /\ ncmds' = ncmds + 1
UploadCalled == last'.op \in {"apply_upload", "apply_upload_call"} /\ ncmds' = ncmds + 1
\* thread c, inside _apply_upload and past the file, sets the store's fields
Saves(c) == pc[c] \in {"upload_commit", "call_commit"} /\ pc'[c] # pc[c]

\* what the boundary asks of a step in which thread c takes the upload
\* last'.frame: one of 2,097,152 bytes goes on to the file, one of 2,097,153
\* bytes is dropped with the store and the file as they were
BoundaryKept(c) ==
    /\ HasSize(last'.frame, UploadLimit) => pc'[c] \in {"upload_open", "call_open"}
    /\ HasSize(last'.frame, UploadLimit + 1) =>
          /\ State' = State
          /\ robot_py' = robot_py
          /\ pc'[c] \notin {"upload_open", "call_open"}
\* and of the step in which thread c, the file written, sets the store
BoundarySaved(c) ==
    (Saves(c) /\ HasSize(UploadFrame(c), UploadLimit)) =>
        /\ State'.last_upload_filename = Some(UploadName(UploadFrame(c)))
        /\ State'.new_code_available

\* C8 as stated: an upload of exactly 2,097,152 decoded bytes is accepted and
\* sets lastUploadFilename, one of 2,097,153 bytes is rejected and leaves the
\* store unchanged, whether it arrives in a frame of a session or is given to
\* _apply_upload on its own.
UploadSizeBoundary ==
    [][ /\ UploadArrives => BoundaryKept(last'.c)
        /\ UploadCalled => BoundaryKept(2)
        /\ \A c \in Conns : BoundarySaved(c) ]_vars

\* the boundary for _apply_upload on its own
UploadRoutineBoundary ==
    [][ /\ UploadCalled => BoundaryKept(2)
        /\ BoundarySaved(2) ]_vars

\* a text frame with a payload that is no well-formed command
Malformed(frame) ==
    /\ frame.opcode = 1
    /\ frame.len > 0
    /\ \/ frame.body.k \in {"badutf8", "badjson"}
       \/ /\ frame.body.k = "json"
          /\ \/ frame.body.v.t # "object"
             \/ /\ frame.body.v.t = "object"
                /\ \/ frame.body.v.action.t # "str"
                   \/ /\ frame.body.v.action.t = "str"
                      /\ frame.body.v.action.s \notin {"run", "relocate", "end", "upload"}
                   \/ /\ ActionIs(frame.body.v, "upload")
                      /\ \/ frame.body.v.content.t # "b64"
                         \/ frame.body.v.filename.t \notin {"absent", "path", "str", "b64"}

\* C9 as stated: a malformed text frame is ignored: the store keeps its flags
\* and fields, nothing is sent, the connection stays in the live set with its
\* socket open and the handler goes on to read the next frame.
MalformedIgnored ==
    [][ \A c \in Conns :
          /\ (Receives(c) /\ Malformed(last'.frame)) =>
                /\ State' = State
                /\ sent' = sent
                /\ ws_clients' = ws_clients
                /\ sock'[c] = "open"
                /\ pc'[c] \in {"recv", "upload_open"}
          /\ (Written(c) /\ Malformed(UploadFrame(c))) =>
                /\ State' = State
                /\ sent' = sent
                /\ ws_clients' = ws_clients
                /\ sock'[c] = "open"
                /\ pc'[c] \in {"recv", "upload_write"} ]_vars

\* the status the dispatch table gives a request
ExpectedStatus(req, readable) ==
    LET method == IF req.method \in {"GET", "get"} THEN "GET" ELSE "other"
        path == IF req.target \in {"/ws", "/ws?x=1"} THEN "/ws" ELSE req.target
        websocket == req.upgrade \in {Some("websocket"), Some("WebSocket")}
    IN  IF method = "GET" /\ path = "/ws" /\ websocket /\ ~IsNone(req.key) THEN 101
        ELSE IF method # "GET" THEN 404
        ELSE IF path \notin {"/", "/index.html"} THEN 404
        ELSE IF readable THEN 200
        ELSE 500

\* C10: connection dispatch.  The response to a parsed request is the one of
\* the table: 101 and the session loop for GET /ws with Upgrade: websocket (in
\* any case) and a key; for another GET 200 / 500 / 404 by path and document;
\* 404 for another method.  Every other response than 101 carries
\* "Connection: close"; a connection not answered 101 is closed and never in
\* the live set.
ConnectionDispatch ==
    /\ (last.op = "connect" /\ last.sendok) =>
          LET st == ExpectedStatus(Val(last.info), last.readable) IN
          /\ resp[last.c] # None
          /\ Val(resp[last.c]).status = st
          /\ (st # 101) <=> (Val(resp[last.c]).connection = "close")
          /\ (st = 101) <=> (pc[last.c] \in {"ws_add", "ws_snapshot", "ws_send", "recv"})
    /\ \A c \in Conns :
          (pc[c] # "idle" /\ (resp[c] = None \/ Val(resp[c]).status # 101)) =>
              /\ pc[c] = "done"
              /\ sock[c] = "closed"
              /\ c \notin ws_clients
              /\ sent[c] = <<>>

\* a POST on one connection was answered 404 and closed, while GET /ws with
\* "Upgrade: WebSocket" and a key on the other was answered 101 and that
\* connection is in the live set
ConnectionDispatchWitness ==
    /\ last.op = "connect"
    /\ last.info = Some(Request("POST", "/ws", Some("websocket"),
                                Some("dGhlIHNhbXBsZSBub25jZQ==")))
    /\ resp[last.c] = Some(http_response(404))
    /\ sock[last.c] = "closed"
    /\ \E c \in ws_clients :
          /\ c # last.c
          /\ Val(resp[c]).status = 101
          /\ sent[c] # <<>>

\* C11 as stated: a connection whose first request is malformed, or has another
\* method than GET, is answered 404 Not Found and closed.
MalformedRequestIs404 ==
    (/\ last.op = "connect"
     /\ last.sendok
     /\ (IsNone(last.info) \/ Upper(Val(last.info).method) # "GET")) =>
        /\ resp[last.c] = Some(http_response(404))
        /\ sock[last.c] = "closed"

\* the part of it that is about a request that was parsed
OtherMethodIs404 ==
    (/\ last.op = "connect"
     /\ last.sendok
     /\ ~IsNone(last.info)
     /\ Upper(Val(last.info).method) # "GET") =>
        /\ resp[last.c] = Some(http_response(404))
        /\ sock[last.c] = "closed"

\* C12 as stated: no lock is held across socket I/O, so while a client's
\* socket write blocks, another connection can still be registered in and
\* removed from the live set.
BlockedWriteDelaysNobody ==
    (\E d \in Conns : peer[d] = "stalled") =>
        \A c \in Conns :
            /\ pc[c] = "ws_add" => ENABLED WsAdd(c)
            /\ pc[c] = "exit" => ENABLED WsDiscard(c)

\* the `with _STATE.lock:` block of server thread t: the fields are read or
\* written and the lock is released
StateLockBlock(t) ==
    \/ BcSnapshot(t)
    \/ t # 0 /\ (WsSnapshot(t) \/ UploadCommit(t) \/ CallApplyUploadCommit(t))

\* C13: the external loop never waits on the network.  A server thread that
\* holds the State Store lock can finish its block at once, whatever the
\* clients do (also while a client has stopped reading and another thread is
\* inside the send loop or writes the upload file); the step in which it
\* moves on releases the lock and has written to no socket and no file; and
\* whenever no server thread holds the lock, every consume call and every
\* setter call of the external loop can take its critical section at once.
\* So the external loop waits for one field access at most.
ExternalLoopNeverWaits ==
    /\ [](/\ \A t \in Threads : state_lock = Some(t) => ENABLED StateLockBlock(t)
          /\ IsNone(state_lock) =>
                /\ \A f \in FlagNames : ENABLED ExtConsume(f)
                /\ nsets < MaxSets => \A in \in ScoreInputs : ENABLED ExtUpdateScore(in))
    /\ [][\A t \in Threads : state_lock = Some(t) =>
             /\ state_lock' \in {None, Some(t)}
             /\ state_lock' = Some(t) => pc'[t] = pc[t]
             /\ state_lock' = None =>
                    /\ pc'[t] # pc[t]
                    /\ sent' = sent /\ wr' = wr /\ robot_py' = robot_py
                    /\ sock' = sock /\ ws_clients' = ws_clients
         ]_vars

\* the broadcaster is inside the send loop behind a client that has stopped
\* reading, thread 1 has written its upload file and holds the State Store
\* lock to record it, and since the broadcaster took its snapshot the
\* external loop has published a score
ExternalLoopNeverWaitsWitness ==
    /\ pc[0] = "bc_loop"
    /\ \E d \in ws_clients : peer[d] = "stalled"
    /\ pc[1] = "upload_commit"
    /\ state_lock = Some(1)
    /\ ~IsNone(robot_py)
    /\ Val(payload[0]).points = 0
    /\ State.points = 1240
\* a step that changes the store is a call of the external loop or a command
\* that completed: a flag command, or an upload that was saved
StoreChangeIsCompleted ==
    State' # State =>
        \/ nsets' = nsets + 1
        \/ last'.op = "consume" /\ pc' = pc /\ wr' = wr
        \/ \E c \in Conns :
              /\ Receives(c)
              /\ CommandFlag(last'.frame, FALSE) # "none"
              /\ State' = [State EXCEPT ![CommandFlag(last'.frame, FALSE)] = TRUE]
        \/ \E c \in Conns :
              /\ Commits(c)
              /\ ~IsNone(saved'[c])
              /\ State' = [State EXCEPT !.new_code_available = TRUE,
                                        !.last_upload_filename = saved'[c]]

\* the broadcaster can take its next step, or it waits for _ws_clients_lock
\* and the thread that holds the lock can take its next step
BroadcasterGoesOn ==
    \/ ENABLED Broadcast(0)
    \/ /\ pc[0] = "bc_send"
       /\ \E t \in Threads \ {0} : pc[t] = "bc_loop" /\ ENABLED Broadcast(t)

\* C14: fault isolation.  Whatever goes wrong on connection 1 (an error or
\* end of stream on read, a peer that is gone, a frame over the limit, a
\* malformed or failing command, a failed send), the broadcaster can take its
\* next step, the store changes only by a completed command or an external
\* call, connection 2 stays open and in the live set and is sent one copy of
\* every broadcast, and the external loop's calls can be made.
FaultIsolation ==
    /\ [](/\ BroadcasterGoesOn
          /\ 2 \in ws_clients
          /\ sock[2] = "open"
          /\ pc[2] = "recv"
          /\ \A f \in FlagNames : ENABLED ExtConsume(f)
          /\ nsets < MaxSets => \A in \in ScoreInputs : ENABLED ExtUpdateScore(in))
    /\ [][ /\ StoreChangeIsCompleted
           /\ \A t \in Threads : SendsTo(t, 2) =>
                 /\ sent'[2] = Append(sent[2], sent'[2][Len(sent'[2])])
                 /\ Carries(sent'[2][Len(sent'[2])], Val(payload[t]))
           /\ (\A t \in Threads : ~SendsTo(t, 2)) => sent'[2] = sent[2]
           /\ \A t \in Threads : Leaves(t) => 2 \in wr.done[t] \ wr.dead[t]
         ]_vars

\* connection 1 was ended by the exception of a JSON array and is closed; the
\* broadcaster, whose send to it had failed or not, is about to send the
\* score the external loop has set since to connection 2
FaultIsolationWitness ==
    /\ pc[1] = "done" /\ sock[1] = "closed" /\ 1 \notin ws_clients
    /\ last.op = "recv" /\ last.c = 1 /\ last.frame = Frame(1, Json(JArray))
    /\ pc[0] = "bc_send" /\ Val(payload[0]).points = 1240
    /\ 2 \in ws_clients /\ peer[2] = "up"

\* the message thread t broadcasts
BroadcastMessage(t) == [src |-> "bcast", data |-> JsonDumps(Val(payload[t]))]

\* C15: dead-client handling during a broadcast.  In the send loop of a
\* broadcast every client of the live set is sent to once, and the send
\* either returns (one copy of the message has gone out on that socket and
\* the client is not marked) or raises (nothing has gone out and the client
\* is marked dead), whatever happened to the others: it returns when the
\* socket is open and the peer is up, it raises when the socket is closed,
\* and it does either when the peer is gone behind an open socket.  When the
\* loop is left exactly the marked clients are removed from the set and
\* closed and every other client stays; nothing is sent to a connection
\* outside the set, and a closed connection is never sent anything later (no
\* retry, no queue).
DeadClientHandling ==
    [][ /\ \A t \in Threads : \A c \in Conns : SendsTo(t, c) =>
              /\ c \in ws_clients
              /\ c \notin wr.dead[t]
              /\ wr'.done[t] = wr.done[t] \cup {c}
              /\ \/ /\ sent'[c] = Append(sent[c], BroadcastMessage(t))
                    /\ wr'.dead[t] = wr.dead[t]
                 \/ /\ sent'[c] = sent[c]
                    /\ wr'.dead[t] = wr.dead[t] \cup {c}
              /\ (sock[c] = "open" /\ peer[c] = "up") => c \notin wr'.dead[t]
              /\ sock[c] # "open" => c \in wr'.dead[t]
              /\ \A d \in Conns \ {c} : sent'[d] = sent[d]
              /\ ws_clients' = ws_clients
              /\ sock' = sock
        /\ \A t \in Threads : Leaves(t) =>
              /\ ws_clients \subseteq wr.done[t]
              /\ sent' = sent
              /\ \A c \in Conns :
                    /\ c \in ws_clients \ wr.dead[t] =>
                          c \in ws_clients' /\ sock'[c] = "open"
                    /\ c \in wr.dead[t] => c \notin ws_clients' /\ sock'[c] = "closed"
                    /\ c \notin ws_clients => c \notin ws_clients' /\ sock'[c] = sock[c]
        /\ \A c \in Conns : sock[c] = "closed" => sent'[c] = sent[c]
      ]_vars

\* one broadcast has happened, of the score set after both clients were in
\* the live set: the send to client 1 failed, it is closed and removed while
\* its thread is still in the frame loop, and client 2 was sent its copy
DeadClientHandlingWitness ==
    /\ pc[1] = "recv" /\ sock[1] = "closed" /\ 1 \notin ws_clients
    /\ Len(sent[1]) = 1
    /\ 2 \in ws_clients /\ sock[2] = "open"
    /\ Len(sent[2]) = 2 /\ sent[2][2].src = "bcast"
    /\ JsonField(sent[2][2].data, "points") = 1240
    /\ pc[0] = "sleep"

\* the handshake response was sent on connection c
Handshaken(c) == ~IsNone(resp[c]) /\ Val(resp[c]).status = 101

\* C16: the live-set lifecycle.  A connection in the live set has been sent
\* its handshake response and its thread is inside _handle_websocket, past
\* the registration and before the removal of the finally clause; once the
\* thread has left _handle_websocket, for whatever reason, the connection is
\* not in the set and its socket is closed; no closed socket is in the set.
LiveSetLifecycle ==
    \A c \in Conns :
        /\ c \in ws_clients =>
              /\ Handshaken(c)
              /\ pc[c] \notin {"idle", "ws_add", "close", "done"}
        /\ pc[c] = "done" => c \notin ws_clients /\ sock[c] = "closed"
        /\ sock[c] = "closed" => c \notin ws_clients

\* client 1's session was ended by the exception of a JSON array and has
\* left _handle_websocket; client 2 was dropped by a broadcast whose send to
\* it failed, and its thread has not yet noticed
LiveSetLifecycleWitness ==
    /\ pc[1] = "done" /\ Handshaken(1) /\ sock[1] = "closed"
    /\ last.op = "recv" /\ last.c = 1 /\ last.frame = Frame(1, Json(JArray))
    /\ pc[2] = "recv" /\ sock[2] = "closed" /\ peer[2] = "gone"
    /\ ws_clients = {}

\* the length field of a header, read as the three forms are defined
HeaderForm(h) ==
    IF h[2] < 126 THEN [form |-> 1, length |-> h[2]]
    ELSE IF h[2] = 126 THEN [form |-> 2, length |-> h[3] * 256 + h[4]]
    ELSE [form |-> 8, length |-> h[8] * 65536 + h[9] * 256 + h[10]]

\* C17: frame length boundaries.  _ws_recv_frame on the bytes _ws_send_text
\* wrote for a payload of n bytes, n up to the decode limit, returns opcode 1
\* and the same n payload bytes, unmasked; the header has the one-byte length
\* for n < 126, the marker 126 and 16 bits big-endian for 126..65535, the
\* marker 127 and 64 bits big-endian from 65536 on.
FrameRoundTrip ==
    (last.op = "recv_frame" /\ last.n <= FrameLimit) =>
        LET h == last.stream.head IN
        /\ last.ret = Some([opcode |-> 1,
                            payload |-> [n |-> last.n, off |-> 0, masked |-> FALSE]])
        /\ h[1] = 129
        /\ Len(h) = (IF last.n < 126 THEN 2 ELSE IF last.n < 65536 THEN 4 ELSE 10)
        /\ HeaderForm(h) = [form |-> Len(h) - 2 + (IF Len(h) = 2 THEN 1 ELSE 0),
                            length |-> last.n]
        /\ Len(h) = 10 => \A i \in 3..7 : h[i] = 0

\* a payload of 65536 bytes has been written and read back
FrameRoundTripWitness ==
    /\ last.op = "recv_frame" /\ last.n = 65536
    /\ ~IsNone(last.ret) /\ Val(last.ret).payload.n = 65536
    /\ last.stream.head[2] = 127

\* thread c is past a frame over the limit and not yet out of the handler
AfterOversize(c) ==
    /\ last.op = "recv" /\ last.c = c /\ last.frame.len > FrameLimit
    /\ pc[c] \in {"exit", "close"}

\* C18: the inbound frame size limit.  _ws_recv_frame refuses a frame that
\* declares more than 1,048,576 payload bytes after the header, before it has
\* read one payload byte, and takes a frame that declares 1,048,576 bytes or
\* fewer when the payload is there.  In a session the frame over the limit
\* ends the frame loop with the store, the file and everything sent left as
\* they were, and the thread then removes and closes the connection; the
\* upload of a frame of exactly 1,048,576 bytes is carried out.
FrameSizeLimit ==
    [][ /\ last'.op = "recv_frame" =>
              LET st == last'.stream IN
              IF last'.n > FrameLimit
              THEN /\ IsNone(last'.ret)
                   /\ last'.read = Len(st.head)
              ELSE IF st.body = last'.n
              THEN /\ last'.ret = Some([opcode |-> 1,
                                        payload |-> [n |-> last'.n, off |-> 0,
                                                     masked |-> TRUE]])
                   /\ last'.read = Len(st.head) + last'.n
              ELSE IsNone(last'.ret)
        /\ \A c \in Conns :
              /\ (Receives(c) /\ last'.frame.len > FrameLimit) =>
                    /\ pc'[c] = "exit"
                    /\ State' = State /\ robot_py' = robot_py
                    /\ sent' = sent /\ resp' = resp
              /\ (Receives(c) /\ last'.frame.len <= FrameLimit) => pc'[c] # "exit"
              /\ (Receives(c) /\ last'.frame = UploadOfChars(FrameLimit)) =>
                    pc'[c] = "upload_open"
              /\ (Commits(c) /\ UploadFrame(c) = UploadOfChars(FrameLimit)) =>
                    /\ State'.last_upload_filename = Some("robot.py")
                    /\ pc'[c] = "bc_snapshot"
              /\ AfterOversize(c) =>
                    /\ State' = State /\ sent' = sent /\ resp' = resp
                    /\ pc'[c] \in {"exit", "close", "done"}
                    /\ pc'[c] = "done" => sock'[c] = "closed" /\ c \notin ws_clients'
      ]_vars

\* the session was sent a frame of 1,048,577 bytes and the connection has
\* been closed; _ws_recv_frame, given a header that declares 1,048,577 bytes,
\* has returned None
FrameSizeLimitWitness ==
    /\ wire = None /\ last.op = "recv_frame" /\ last.n = FrameLimit + 1
    /\ IsNone(last.ret)
    /\ pc[1] = "done" /\ sock[1] = "closed" /\ ncmds = 1
    /\ Len(sent[1]) = 1

\* the fields update_score writes, and those set_room_stats writes
ScoreFields(p) == <<p.points, p.percent, p.remainingSeconds, p.gameOver, p.scoreLog>>
RoomFields(p) == <<p.roomPcts, p.currentRoom>>

\* the snapshot right after the call with these arguments
AfterScoreCall(in) ==
    get_state_snapshot(update_score(SharedStateInit, in[1], in[2], in[3], in[4], in[5]))
AfterRoomCall(in) == get_state_snapshot(set_room_stats(SharedStateInit, in[1], in[2]))

\* the dict h as its holder reads it now
ReadNow(h) == [h.snap EXCEPT !.roomPcts = heap.val[h.room], !.scoreLog = heap.val[h.log]]

\* C19: snapshot consistency.  The fields of every dict get_state_snapshot
\* returned that update_score writes are those of one update_score call (or
\* the initial ones), its roomPcts and currentRoom are those of one
\* set_room_stats call (or the initial ones), and what its holder reads from
\* it stays what was returned, whatever setter calls and uploads follow.
SnapshotConsistency ==
    \A i \in 1..Len(heap.held) :
        LET h == heap.held[i] IN
        /\ \/ ScoreFields(h.snap) = ScoreFields(get_state_snapshot(SharedStateInit))
           \/ \E in \in ScoreCalls : ScoreFields(h.snap) = ScoreFields(AfterScoreCall(in))
        /\ \/ RoomFields(h.snap) = RoomFields(get_state_snapshot(SharedStateInit))
           \/ \E in \in RoomCalls : RoomFields(h.snap) = RoomFields(AfterRoomCall(in))
        /\ ReadNow(h) = h.snap

\* a snapshot taken between two update_score calls and before an upload is
\* still held, with the values of the first call, while the store has those
\* of the second call and the file name
HeldSnapshotWitness ==
    /\ Len(heap.held) >= 1
    /\ heap.held[1].snap.points = 1240
    /\ Len(heap.held[1].snap.scoreLog) = 1
    /\ heap.held[1].snap.lastUploadFilename = None
    /\ State.points = 1300
    /\ Len(State.score_log) = 2
    /\ State.last_upload_filename = Some("a.py")
    /\ ext.pc = "idle"

\* the fields of the store a step changes
Changed == {k \in DOMAIN State : State'[k] # State[k]}

\* the fields each setter writes
SetterFields ==
    { {"points", "percent", "remaining_seconds", "game_over", "score_log"},
      {"team_name"}, {"battery"}, {"room_pcts", "current_room"}, {"subleague"} }

\* the flag of a run, relocate or end command, "none" for another frame
ButtonFlag(frame) ==
    LET f == CommandFlag(frame, FALSE) IN
    IF f \in {"run_requested", "relocate_requested", "end_requested"} THEN f ELSE "none"

\* the steps that write the store
ButtonStep(c) == Receives(c) /\ ButtonFlag(last'.frame) # "none"
UploadSaved(c) ==
    Commits(c) /\ ValidUpload(UploadFrame(c)) /\ ~IsNone(saved'[c])
ConsumeStep ==
    /\ last'.op = "consume"
    /\ pc' = pc /\ wr' = wr /\ nsets' = nsets /\ ncmds' = ncmds
SetterStep == nsets' = nsets + 1

\* C20: write ownership.  A run, relocate or end command sets its flag and
\* changes no other field of the store, nor the broadcast cache, and sends
\* nothing; a consume call changes no field but its own flag; a setter call
\* changes fields of one setter only, none of them a flag or the upload name;
\* lastUploadFilename changes, and the new-code flag is set, only in the step
\* of an upload that was saved; no other step changes the store.
WriteOwnership ==
    [][ /\ \A c \in Conns : ButtonStep(c) =>
              /\ Changed \subseteq {ButtonFlag(last'.frame)}
              /\ State'[ButtonFlag(last'.frame)]
              /\ last_broadcast_json' = last_broadcast_json
              /\ sent' = sent
              /\ pc'[c] = "recv"
        /\ ConsumeStep =>
              /\ Changed \subseteq {last'.flag}
              /\ ~State'[last'.flag]
              /\ last'.ret = State[last'.flag]
        /\ SetterStep => \E F \in SetterFields : Changed \subseteq F
        /\ (\/ State'.last_upload_filename # State.last_upload_filename
            \/ State'.new_code_available /\ ~State.new_code_available) =>
              \E c \in Conns :
                 /\ UploadSaved(c)
                 /\ Changed \subseteq {"last_upload_filename", "new_code_available"}
        /\ Changed # {} =>
              \/ ConsumeStep
              \/ SetterStep
              \/ \E c \in Conns : ButtonStep(c) \/ UploadSaved(c)
      ]_vars

\* after a run command, a saved upload and a set_team_name call, the new-code
\* flag has just been consumed: the run flag, the team name and the upload
\* name are as they were
WriteOwnershipWitness ==
    /\ last.op = "consume" /\ last.flag = "new_code_available" /\ last.ret
    /\ State.run_requested
    /\ ~State.new_code_available
    /\ State.last_upload_filename = Some("a.py")
    /\ State.team_name = "Team A"

\* hasCode of a snapshot dict says whether its lastUploadFilename is set
HasCodeIffName(p) == p.hasCode <=> ~IsNone(p.lastUploadFilename)

\* C21: in every snapshot (the one get_state_snapshot would return now, the
\* ones threads hold, every message sent) hasCode is true exactly when
\* lastUploadFilename is not null; before any frame was read the name is
\* unset; once it is set no step unsets it.
HasCodeTracksUpload ==
    [][ /\ HasCodeIffName(get_state_snapshot(State'))
        /\ \A t \in Threads : ~IsNone(payload'[t]) => HasCodeIffName(Val(payload'[t]))
        /\ \A c \in Conns : \A i \in 1..Len(sent'[c]) :
              JsonField(sent'[c][i].data, "hasCode")
                 <=> ~IsNone(JsonField(sent'[c][i].data, "lastUploadFilename"))
        /\ ncmds = 0 => IsNone(State.last_upload_filename)
        /\ ~IsNone(State.last_upload_filename) => ~IsNone(State'.last_upload_filename)
      ]_vars

\* the client has been sent a snapshot with the uploaded name and hasCode
\* after the new-code flag of that upload was consumed
HasCodeTracksUploadWitness ==
    /\ State.last_upload_filename = Some("a.py")
    /\ ~State.new_code_available
    /\ last.op = "consume" /\ last.flag = "new_code_available" /\ last.ret
    /\ pc[1] = "bc_send"
    /\ Val(payload[1]).hasCode
    /\ Len(sent[1]) = 1 /\ ~JsonField(sent[1][1].data, "hasCode")

\* C22: the percent of the store, and so of every snapshot taken from it,
\* is between 0 and 100 in every state of the control loop and its client,
\* the states between two store calls of one iteration included; the counter
\* is the number of cleaned cells of the grid.
PercentInRange ==
    /\ 0 <= State.percent /\ State.percent <= 100
    /\ 0 <= get_state_snapshot(State).percent /\ get_state_snapshot(State).percent <= 100
    /\ sup.cleaned_squares_count = Cardinality(sup.ground_grid)
    /\ sup.ground_grid \subseteq Cells

\* in its second run the loop has published 100 percent: every cell was
\* cleaned again after the reset, and the robot went over cleaned cells
PercentInRangeWitness ==
    /\ pub.run = 2
    /\ State.percent = 100
    /\ sup.cleaned_squares_count = GridCells
    /\ pub.n >= 2
    /\ loop.pc = "step"

\* sequence a is the beginning of sequence b
BeginsWith(b, a) == Len(a) <= Len(b) /\ SubSeq(b, 1, Len(a)) = a

\* C23: scoreLog is append-only within a run and cleared on reset.  Every
\* entry of the scoreLog of the Snapshot was appended in the run that was
\* started last, and from one state to the next of the same run the earlier
\* scoreLog of the Snapshot is the beginning of the later one.
ScoreLogAppendOnly ==
    /\ [](/\ Len(pub.shown) = Len(get_state_snapshot(State).scoreLog)
          /\ \A i \in 1..Len(pub.shown) : pub.shown[i] = pub.run)
    /\ [][ pub'.run = pub.run =>
              BeginsWith(get_state_snapshot(State').scoreLog,
                         get_state_snapshot(State).scoreLog) ]_vars

\* the accept values of the two keys, from RFC 6455 and from a second
\* handshake computed independently
ExpectedAccept(key) ==
    CASE key = "dGhlIHNhbXBsZSBub25jZQ==" -> encode("s3pPLMBiTxaQ9kYGzzhZRbK+xOo=")
      [] key = "x3JJHMbDL1EzLkh9GBhXDw==" -> encode("HSmrc0sMlYUkAGmm5OPpG2HaGWk=")

\* C24: _ws_accept_key gives base64(SHA1(key + magic)): for the key
\* dGhlIHNhbXBsZSBub25jZQ== it is s3pPLMBiTxaQ9kYGzzhZRbK+xOo=, and the 101
\* response of a handshake carries the value of the key of its request.
AcceptValue ==
    /\ ws_accept_key("dGhlIHNhbXBsZSBub25jZQ==") = encode("s3pPLMBiTxaQ9kYGzzhZRbK+xOo=")
    /\ (last.op = "connect" /\ last.sendok) =>
          /\ ~IsNone(resp[last.c])
          /\ Val(resp[last.c]).status = 101
          /\ Val(resp[last.c]).accept = ExpectedAccept(Val(Val(last.info).key))
          /\ Len(Val(resp[last.c]).accept) = 28
    /\ \A c \in Conns :
          Handshaken(c) => \E key \in HandshakeKeys : Val(resp[c]).accept = ExpectedAccept(key)

\* both connections are upgraded, one with each key, each with its own value
AcceptValueWitness ==
    /\ \A c \in Conns : Handshaken(c) /\ c \in ws_clients
    /\ Val(resp[1]).accept = encode("s3pPLMBiTxaQ9kYGzzhZRbK+xOo=")
    /\ Val(resp[2]).accept = encode("HSmrc0sMlYUkAGmm5OPpG2HaGWk=")

\* no thread is inside _broadcast_state or sending an initial snapshot
NoSendInProgress ==
    \A t \in Threads :
        pc[t] \notin {"ws_add", "ws_snapshot", "ws_send", "bc_snapshot", "bc_compare",
                      "bc_send", "bc_loop"}

\* C25 as stated: when no broadcast and no initial send is in progress and the
\* Broadcaster has completed a tick that read the snapshot the store has now,
\* the last message of every live client is that snapshot.
ClientsConverge ==
    (NoSendInProgress /\ tick.cur = Some(get_state_snapshot(State))) =>
        \A c \in ws_clients :
            (sock[c] = "open" /\ peer[c] = "up") =>
                /\ sent[c] # <<>>
                /\ sent[c][Len(sent[c])].data = JsonDumps(get_state_snapshot(State))

\* C26 as stated: at any time at most one thread is inside the write of a
\* frame to a given client socket.
ExclusiveSocketWriters ==
    \A c \in Conns : Cardinality({t \in Threads : wr.at[t] = Some(c)}) <= 1

\* the flags of the buttons an iteration acted on
ActedFlags(acted) ==
    {f \in ButtonFlags : \/ f = "run_requested" /\ "run" \in acted
                         \/ f = "relocate_requested" /\ "relocate" \in acted
                         \/ f = "end_requested" /\ "end" \in acted}

\* C27 as stated: a command acts in the first iteration after it was issued
\* or never: when no frame has been read since the iteration before this one
\* began, this iteration does not act on a flag that was set when the
\* iteration before began and that it left set.
NoStaleCommand ==
    [][ ncmds = pub.ncmds =>
            ActedFlags(pub'.acted \ pub.acted) \cap pub.left = {}
      ]_vars

\* C28 as stated: whenever a run has ended, the store eventually has
\* game_over = TRUE (unless the next run has started by then).
GameOverPublished ==
    (sup.is_running = Some(FALSE)) ~> (State.game_over \/ Running(sup))

\* C29 as stated: the points of every update_score call of the loop are
\* 1000 + int(cleaned_ratio * 100 * points_per_percent) + the sum of the
\* points of the score log passed with them.
PublishedScoreFormula ==
    \A i \in 1..Len(pub.calls) :
        pub.calls[i].points = 1000 + CleanedPoints(pub.calls[i].count)
                                + SumPoints(pub.calls[i].log)

\* C30 as stated: a whole well-formed frame of at most 1 MiB is decoded to
\* its opcode and payload however the transport splits its bytes.
DecodingIgnoresPieces ==
    (last.op = "recv_pieces" /\ last.n <= FrameLimit) =>
        last.ret = Some([opcode |-> 1,
                         payload |-> [n |-> last.n, off |-> 0, masked |-> TRUE]])

\* the frame read in this step cannot be decoded or is a close frame
DecodeFailsOrClose(frame) == frame.len > FrameLimit \/ frame.opcode = 8

\* a decoded frame that is no text frame with a payload, and no close frame
SkippedFrame(frame) ==
    /\ ~DecodeFailsOrClose(frame)
    /\ frame.opcode # 1 \/ frame.len = 0

\* C31 as stated: the frame loop is left exactly when decoding fails or the
\* frame is a close frame; a frame of another opcode than text, or an empty
\* text frame, changes no flag, no field, not the live set, sends nothing, and
\* the next frame is read; the command of a frame has taken effect when the
\* step that read it is over, so commands take effect in the order received.
FrameDispatch ==
    [][ \A c \in Conns :
          /\ (pc[c] = "recv" /\ pc'[c] = "exit") =>
                \/ sock[c] # "open" \/ peer[c] # "up"
                \/ Receives(c) /\ DecodeFailsOrClose(last'.frame)
          /\ (Receives(c) /\ DecodeFailsOrClose(last'.frame)) => pc'[c] = "exit"
          /\ (pc[c] = "recv" /\ (sock[c] # "open" \/ peer[c] # "up")
                 /\ pc'[c] # "recv") => pc'[c] = "exit"
          /\ (Receives(c) /\ SkippedFrame(last'.frame)) =>
                /\ State' = State
                /\ robot_py' = robot_py
                /\ ws_clients' = ws_clients
                /\ sent' = sent
                /\ last_broadcast_json' = last_broadcast_json
                /\ sock'[c] = "open"
                /\ pc'[c] = "recv"
          /\ (Receives(c) /\ ButtonFlag(last'.frame) # "none") =>
                State'[ButtonFlag(last'.frame)] /\ pc'[c] = "recv"
          /\ (Receives(c) /\ ValidUpload(last'.frame)
                 /\ ~DecodeFailsOrClose(last'.frame)) => pc'[c] = "upload_open"
          /\ pc[c] \in {"upload_open", "upload_write", "upload_commit"} => pc'[c] # "recv"
          /\ Commits(c) =>
                /\ State'.last_upload_filename = Some(UploadName(UploadFrame(c)))
                /\ pc'[c] = "bc_snapshot"
      ]_vars

\* the iteration of this step starts a run
StartsRun == ~Running(sup) /\ Running(sup')

\* C32: the timed run state machine.  A run starts only in the step of the
\* loop that consumes a Run request while no run is on, and that step leaves
\* the grid, the counters, the score log and the boost pads cleared, the
\* battery at 100 and the robot in the scene; no other step starts a run, and
\* only steps of the loop change the loop's state; while a run is on the
\* robot exists, and the time since its start is below the run time limit
\* when an iteration is over; when no run is on there is no robot; every run
\* that is on ends (the loop keeps iterating, and the run starts early enough
\* for the clock of the model).
TimedRun ==
    /\ [][ /\ StartsRun =>
                /\ loop.pc = "run_request" /\ loop'.pc = "step"
                /\ "run" \in pub'.acted
                /\ State.run_requested /\ ~State'.run_requested
                /\ sup'.ground_grid = {}
                /\ sup'.cleaned_squares_count = 0
                /\ sup'.cleaned_cells = 0
                /\ sup'.score_log = <<>>
                /\ sup'.used_boost_pads = FALSE
                /\ sup'.battery_level = 100
                /\ sup'.start_time = Some(sup'.now)
                /\ sup'.robot
           /\ (sup' # sup) => loop'.pc # loop.pc /\ pc' = pc
           /\ (Running(sup) /\ Running(sup')) => sup'.start_time = sup.start_time
        ]_vars
    /\ [](Running(sup) => sup.robot)
    /\ []((Running(sup) /\ loop.pc = "step") =>
              sup.now - Val(sup.start_time) < RunLimit)
    /\ [](~Running(sup) => ~sup.robot)
    /\ ((Running(sup) /\ Val(sup.start_time) + RunLimit <= MaxNow) ~> ~Running(sup))

====
